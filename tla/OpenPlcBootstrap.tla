--------------------------- MODULE OpenPlcBootstrap ---------------------------
(***************************************************************************)
(* The fuel_plc role's play on ff-plc-1: copy fuel_farm.st, then run       *)
(* openplc_bootstrap.py against the OpenPLC container, which uploads,      *)
(* compiles and starts the program and configures fuelsim as the PLC's     *)
(* slave device.  Any step may fail; the play is then run again some time  *)
(* (deploy.sh retries, or the operator does) from its first task.          *)
(*                                                                         *)
(* Programs and slave configurations are versions; 0 is what the image     *)
(* brings: another program, no slave device.                               *)
(*                                                                         *)
(* What the dashboard does with a request is the container's affair; it is *)
(* modelled from how the script uses it: an answer the script examines may *)
(* end the play, one it does not examine may hide a refusal.               *)
(***************************************************************************)
EXTENDS Naturals

CONSTANTS
  FailAt,        \* steps at which a play may fail
  Unnoticed,     \* commands whose failure or refusal nothing examines
  MaxEdits,      \* bound: changes of fuel_farm.st or of the slave's sizes
  MaxFailures,   \* bound: failures
  MaxRestarts    \* bound: restarts and re-creations of the container

Steps == {"login", "stop", "upload", "compile", "start",
          "query", "delete", "add", "restart", "restarting"}

ASSUME FailureAssumption ==
  FailAt \subseteq Steps /\ Unnoticed \subseteq {"query", "delete", "stop", "restart"}

ASSUME BoundAssumption == {MaxEdits, MaxFailures, MaxRestarts} \subseteq Nat

Versions == 0 .. MaxEdits + 1

VARIABLES
  role, sizes,   \* what the repository wants: program, slave device
  file,          \* the .st on the target
  force,         \* --force-program (st_program.changed)
  asked,         \* --slave-*-size of this play
  pc,            \* next step of the play; "idle" between plays
  right,         \* (history) this play found all as wanted, and read it so
  outcome,       \* of the last play
  registered,    \* the version behind the dashboard's program name
  binary,        \* the version last compiled
  row,           \* the slave device in openplc.db
  running,       \* the runtime
  loaded,        \* the version it was started with
  polled,        \* the slave configuration it was started with
  refused,       \* (history) the stops it outlived unnoticed, not made up for
  edits, failures, restarts

wanted  == <<role, sizes>>
play    == <<file, force, asked, right, outcome>>
plc     == <<registered, binary, row>>
runtime == <<running, loaded, polled, refused>>
bounds  == <<edits, failures, restarts>>
vars    == <<wanted, play, pc, plc, runtime, bounds>>

TypeOK ==
  /\ {role, sizes, file, asked, registered, binary, row, loaded, polled} \subseteq Versions
  /\ force \in BOOLEAN /\ right \in BOOLEAN /\ running \in BOOLEAN
  /\ refused \subseteq {"stop", "restart"}
  /\ pc \in Steps \cup {"idle"}
  /\ outcome \in {"none", "ok", "failed"}
  /\ edits \in 0 .. MaxEdits
  /\ failures \in 0 .. MaxFailures
  /\ restarts \in 0 .. MaxRestarts

Init ==
  /\ role = 1 /\ sizes = 1
  /\ file = 0 /\ force = FALSE /\ asked = 0 /\ right = FALSE /\ outcome = "none"
  /\ pc = "idle"
  /\ registered = 0 /\ binary = 0 /\ row = 0
  /\ running = FALSE /\ loaded = 0 /\ polled = 0 /\ refused = {}
  /\ edits = 0 /\ failures = 0 /\ restarts = 0

-------------------------------------------------------------------------------
(***************************************************************************)
(* A step that took effect goes on to the next, or the script dies on its  *)
(* answer (a status code, a timeout, a lost connection).                   *)
(* ThenUnless(missed): the step itself may have failed unnoticed.          *)
(***************************************************************************)
MayFail(step) == step \in FailAt /\ failures < MaxFailures

ThenUnless(missed, step, next) ==
  /\ pc = step
  /\ \/ /\ pc' = next
        /\ outcome' = IF next = "idle" THEN "ok" ELSE outcome
        /\ failures' = IF missed THEN failures + 1 ELSE failures
        /\ failures' <= MaxFailures
     \/ /\ MayFail(step)
        /\ pc' = "idle"
        /\ outcome' = "failed"
        /\ failures' = failures + 1
  /\ UNCHANGED <<wanted, file, asked, edits, restarts>>

Then(step, next) == ThenUnless(FALSE, step, next)

(***************************************************************************)
(* ... or it fails without effect.                                         *)
(***************************************************************************)
FailsBefore ==
  /\ MayFail(pc)
  /\ pc' = "idle"
  /\ failures' = failures + 1
  /\ outcome' = "failed"
  /\ UNCHANGED <<wanted, file, force, asked, right, plc, runtime, edits, restarts>>

-------------------------------------------------------------------------------
(***************************************************************************)
(* The PLC as the repository wants it.                                     *)
(***************************************************************************)
AsWanted == running /\ loaded = role /\ file = role /\ polled = sizes /\ row = sizes

(***************************************************************************)
(* The copy task.  (NeverForced: a play that does not pass st_program on.) *)
(***************************************************************************)
NeverForced == FALSE

Changed == file # role

Copy ==
  /\ pc = "idle"
  /\ force' = Changed
  /\ file' = role
  /\ asked' = sizes
  /\ right' = AsWanted
  /\ pc' = "login"
  /\ UNCHANGED <<wanted, outcome, plc, runtime, bounds>>

(***************************************************************************)
(* main: the program step is skipped if the runtime is running a program   *)
(* of our name, whatever version, and nobody asked to force it.            *)
(* (AlwaysUploads: the check forgotten.)                                   *)
(***************************************************************************)
AlwaysUploads == FALSE

ProgramOk == running /\ registered # 0 /\ ~ force

Inspect ==
  /\ Then("login", IF ProgramOk THEN "query" ELSE "stop")
  /\ UNCHANGED <<force, right, plc, runtime>>

(***************************************************************************)
(* /stop_plc.  Its answer is not examined, here and in restart_runtime: a  *)
(* runtime that refuses to stop lets the play go on.                       *)
(***************************************************************************)
Refuse(stop, next) ==
  /\ pc = stop
  /\ running
  /\ stop \in Unnoticed
  /\ failures < MaxFailures
  /\ failures' = failures + 1
  /\ refused' = refused \cup {stop}
  /\ pc' = next
  /\ UNCHANGED <<wanted, play, plc, running, loaded, polled, edits, restarts>>

StopRefused == Refuse("stop", "upload") \/ Refuse("restart", "restarting")

(***************************************************************************)
(* The runtime stops.  The next start makes up for a slave device that it  *)
(* was not cycled for, but for a refused stop before an upload only the    *)
(* next upload does: the program may be registered and not compiled.       *)
(* (KeepsRunning: a stop that is not called for.)                          *)
(***************************************************************************)
KeepsRunning(madeUpFor) == UNCHANGED <<running, refused>>

Stopped(madeUpFor) == running' = FALSE /\ refused' = refused \ madeUpFor

(***************************************************************************)
(* upload_and_start: /stop_plc ...                                         *)
(***************************************************************************)
StopPlc ==
  /\ Then("stop", "upload")
  /\ Stopped({"stop", "restart"})
  /\ UNCHANGED <<force, right, plc, loaded, polled>>

(***************************************************************************)
(* ... /upload-program and /upload-program-action ...                      *)
(***************************************************************************)
Upload ==
  /\ Then("upload", "compile")
  /\ registered' = file
  /\ UNCHANGED <<force, right, binary, row, runtime>>

(***************************************************************************)
(* ... /compile-program and the poll of its log ...                        *)
(***************************************************************************)
Compile ==
  /\ Then("compile", "start")
  /\ binary' = registered
  /\ UNCHANGED <<force, right, registered, row, runtime>>

(***************************************************************************)
(* ... and /start_plc, which a runtime that still runs does not heed: the  *)
(* dashboard goes on saying Running, which is what the poll waits for.     *)
(***************************************************************************)
Started ==
  /\ running' = TRUE
  /\ loaded' = IF running THEN loaded ELSE binary
  /\ polled' = IF running THEN polled ELSE row
  /\ UNCHANGED refused

Start ==
  /\ Then("start", "query")
  /\ Started
  /\ UNCHANGED <<force, right, plc>>

(***************************************************************************)
(* The slave step: nothing to do if the row is found as asked for.         *)
(* (NameListed: the older check, for the name alone.)                      *)
(***************************************************************************)
NameListed(found) == found # 0

Configured(found) == found = asked

(***************************************************************************)
(* A query that fails reads as None, in whole or in part: the row then     *)
(* seems to be absent or another.                                          *)
(***************************************************************************)
Misreadings == IF "query" \in Unnoticed /\ row # 0 THEN {0, MaxEdits + 2} ELSE {}

QuerySlave ==
  /\ \E found \in {row} \cup Misreadings :
       /\ right' = (right /\ found = row)
       /\ ThenUnless(found # row, "query", IF Configured(found) THEN "idle"
                                          ELSE IF found = 0 THEN "add" ELSE "delete")
  /\ UNCHANGED <<force, plc, runtime>>

(***************************************************************************)
(* DELETE; that sqlite3 failed is not noticed.                             *)
(***************************************************************************)
DeleteRow ==
  /\ row' \in IF "delete" \in Unnoticed THEN {0, row} ELSE {0}
  /\ ThenUnless(row' # 0, "delete", "add")
  /\ UNCHANGED <<force, right, registered, binary, runtime>>

(***************************************************************************)
(* /add-modbus-device rejects a name it has; whether it says so in its     *)
(* status is not known.  The runtime is cycled next.  (NotCycled: the play *)
(* ends here.  CycledElsewhere: it goes on to a step nobody performs.)     *)
(***************************************************************************)
NotCycled == "idle"

CycledElsewhere == "cycle"

AfterAdd == "restart"

AddDevice ==
  /\ Then("add", AfterAdd)
  /\ row' = IF row = 0 THEN asked ELSE row
  /\ UNCHANGED <<force, right, registered, binary, runtime>>

(***************************************************************************)
(* restart_runtime: stop ... and start.                                    *)
(***************************************************************************)
RestartStop ==
  /\ Then("restart", "restarting")
  /\ Stopped({"restart"})
  /\ UNCHANGED <<force, right, plc, loaded, polled>>

RestartStart ==
  /\ Then("restarting", "idle")
  /\ Started
  /\ UNCHANGED <<force, right, plc>>

-------------------------------------------------------------------------------
(***************************************************************************)
(* Somebody changes fuel_farm.st or the mapped sizes in the repository.    *)
(***************************************************************************)
Edit ==
  /\ pc = "idle"
  /\ edits < MaxEdits
  /\ edits' = edits + 1
  /\ \/ role' = role + 1 /\ UNCHANGED sizes
     \/ sizes' = sizes + 1 /\ UNCHANGED role
  /\ UNCHANGED <<play, pc, plc, runtime, failures, restarts>>

(***************************************************************************)
(* The container restarts (unless-stopped) with its runtime stopped ...    *)
(***************************************************************************)
ContainerRestarts ==
  /\ restarts < MaxRestarts
  /\ restarts' = restarts + 1
  /\ Stopped({"restart"})
  /\ UNCHANGED <<wanted, play, pc, plc, loaded, polled, edits, failures>>

(***************************************************************************)
(* ... or the play's container task makes a new one: openplc.db is not     *)
(* persisted.                                                              *)
(***************************************************************************)
ContainerRecreated ==
  /\ pc = "login"
  /\ restarts < MaxRestarts
  /\ restarts' = restarts + 1
  /\ Stopped({"restart"})
  /\ registered' = 0 /\ binary' = 0 /\ row' = 0
  /\ UNCHANGED <<wanted, play, pc, loaded, polled, edits, failures>>

-------------------------------------------------------------------------------
PlayStep ==
  \/ Copy \/ Inspect \/ StopPlc \/ Upload \/ Compile \/ Start
  \/ QuerySlave \/ DeleteRow \/ AddDevice \/ RestartStop \/ RestartStart

Next == PlayStep \/ StopRefused \/ FailsBefore \/ Edit \/ ContainerRestarts \/ ContainerRecreated

Spec == Init /\ [][Next]_vars

(***************************************************************************)
(* Every request times out at last, and the play is run again and again.   *)
(***************************************************************************)
FairSpec == Spec /\ WF_vars(PlayStep)

-------------------------------------------------------------------------------
(***************************************************************************)
(* Wherever plays fail and whoever restarts the container, a running PLC   *)
(* runs the program its dashboard names, no start ever picks up a program  *)
(* that was registered and not compiled, and of all that can go wrong      *)
(* unnoticed only one thing changes that: the runtime outlived the         *)
(* /stop_plc before an upload (line 211), which renames what still runs.   *)
(***************************************************************************)
RunsWhatItNames == running /\ "stop" \notin refused => loaded = registered

(***************************************************************************)
(* "exits 0 without touching state if the runtime is already Running with  *)
(* our program AND the fuel-farm-sim slave device is already configured"   *)
(* (roles/fuel_plc/tasks/main.yml:95): unless its query of the slave       *)
(* device failed, a play never interrupts a PLC that is as wanted.         *)
(***************************************************************************)
NoNeedlessStop == [][AsWanted /\ right /\ restarts' = restarts => running']_vars

(***************************************************************************)
(* However plays failed, edits came and the container restarted in         *)
(* between, once that is over some play brings the PLC to where the        *)
(* repository wants it, and it stays there, unless the runtime has         *)
(* outlived a stop: the next play then finds the name and the row right.   *)
(***************************************************************************)
Converges == <>[](AsWanted \/ refused # {})

(***************************************************************************)
(* "On changes to fuel_farm.st ... the bootstrap re-uploads/re-configures  *)
(* as needed" (roles/fuel_plc/tasks/main.yml:97): after a play that ended  *)
(* well a running PLC that has outlived no stop runs the program on disk.  *)
(***************************************************************************)
ProgramIsCurrent ==
  outcome = "ok" /\ pc = "idle" /\ running /\ "stop" \notin refused => loaded = file

(***************************************************************************)
(* "The runtime must be cycled to pick up the new slave device"            *)
(* (openplc_bootstrap.py:563): after a play that ended well a running PLC  *)
(* polls the slave device as its database has it, unless it was cycled in  *)
(* name only: it outlived the /stop_plc of restart_runtime (line 442).     *)
(***************************************************************************)
SlaveIsPolled ==
  outcome = "ok" /\ pc = "idle" /\ running /\ "restart" \notin refused => polled = row
===============================================================================
