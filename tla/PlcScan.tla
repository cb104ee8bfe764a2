-------------------------------- MODULE PlcScan --------------------------------
(***************************************************************************)
(* The PLC at run time, composed with the simulator's registers            *)
(* (SimState): OpenPLC polls fuelsim's discrete inputs into a mirror, the  *)
(* scan of fuel_farm.st computes its coils from the mirror, and masters on *)
(* the SCADA bus (FUXA) write coils between scans.  OpenPLC never writes   *)
(* back to fuelsim.                                                        *)
(***************************************************************************)
EXTENDS SimState

CONSTANTS
  GroundOk, Deadman, Overfill,  \* tags of a rack's status inputs
  LowLevel,                     \* T101_LO_LVL, which both racks share
  Esd,                          \* ESD_ACTIVE
  Commands                      \* P20x_RUN_CMD and T10x_OUT_VLV, coils of the PLC

(***************************************************************************)
(* The inputs are discrete inputs of the simulator's map.                  *)
(***************************************************************************)
Inputs == {t \in Tags : Block[t] = "discrete_inputs"}

Wired ==
  /\ {GroundOk, Deadman, Overfill} \subseteq [Racks -> Inputs]
  /\ {LowLevel, Esd} \subseteq Inputs

VARIABLES
  mirror,    \* the inputs as last polled: zeros until the first poll
  cmd,       \* Commands
  valve,     \* LRx_LOAD_VLV
  permit,    \* LRx_PERMIT_OUT
  seen,      \* (history) the mirror the last scan read
  touched,   \* (history) racks whose coils a master wrote since that scan
  ordered    \* (history) commands a master set since the last scan under ESD

plc == <<mirror, cmd, valve, permit, seen, touched, ordered>>

PlcTypeOK ==
  /\ TypeOK
  /\ {mirror, seen} \subseteq [Inputs -> {0, 1}]
  /\ cmd \in [Commands -> BOOLEAN]
  /\ {valve, permit} \subseteq [Racks -> BOOLEAN]
  /\ touched \subseteq Racks
  /\ ordered \subseteq Commands

PlcInit ==
  /\ Init
  /\ mirror = [t \in Inputs |-> 0] /\ seen = mirror
  /\ cmd = [c \in Commands |-> FALSE]
  /\ valve = [r \in Racks |-> FALSE]
  /\ permit = [r \in Racks |-> FALSE]
  /\ touched = {} /\ ordered = {}

-------------------------------------------------------------------------------
(***************************************************************************)
(* OpenPLC's slave device: one request reads all discrete inputs; a poll   *)
(* that fails leaves the mirror as it was (no step).                       *)
(***************************************************************************)
Poll ==
  /\ mirror' = [t \in Inputs |-> Get(t)]
  /\ UNCHANGED <<regs, cmd, valve, permit, seen, touched, ordered>>

(***************************************************************************)
(* One scan of the program.                                                *)
(***************************************************************************)
Permit(in, r) ==
  /\ in[GroundOk[r]] = 1 /\ in[Deadman[r]] = 1
  /\ in[Overfill[r]] = 0
  /\ in[LowLevel] = 0
  /\ in[Esd] = 0

Scan ==
  LET esd == mirror[Esd] = 1
  IN  /\ permit' = [r \in Racks |-> Permit(mirror, r)]
      /\ valve' = [r \in Racks |-> Permit(mirror, r) /\ ~esd]
      /\ cmd' = [c \in Commands |-> cmd[c] /\ ~esd]
      /\ seen' = mirror
      /\ touched' = {}
      /\ ordered' = IF esd THEN {} ELSE ordered
      /\ UNCHANGED <<regs, mirror>>

(***************************************************************************)
(* A master writes a coil.                                                 *)
(***************************************************************************)
MasterCommands(c, on) ==
  /\ cmd' = [cmd EXCEPT ![c] = on]
  /\ ordered' = IF on THEN ordered \cup {c} ELSE ordered
  /\ UNCHANGED <<regs, mirror, valve, permit, seen, touched>>

MasterWritesRack(r) ==
  /\ \E v, p \in BOOLEAN : /\ valve' = [valve EXCEPT ![r] = v]
                           /\ permit' = [permit EXCEPT ![r] = p]
  /\ touched' = touched \cup {r}
  /\ UNCHANGED <<regs, mirror, cmd, seen, ordered>>

PlcNext ==
  \/ Next /\ UNCHANGED plc
  \/ Poll \/ Scan
  \/ \E c \in Commands, on \in BOOLEAN : MasterCommands(c, on)
  \/ \E r \in Racks : MasterWritesRack(r)

PlcSpec == PlcInit /\ [][PlcNext]_<<regs, plc>>

-------------------------------------------------------------------------------
(***************************************************************************)
(* "The ESD block below still force-clears as belt-and-suspenders", and    *)
(* the permit mirrors need no clearing: valve and permit never part but    *)
(* by a master's write, and both follow the inputs of the last scan.       *)
(* (fuel_farm.st:117-146)                                                  *)
(***************************************************************************)
ValveIsPermit ==
  \A r \in Racks \ touched : (permit[r] <=> valve[r]) /\ (permit[r] => Permit(seen, r))

(***************************************************************************)
(* The program starts nothing: a pump command or outlet valve that is on   *)
(* was set by a master after the last scan under ESD, so that an ESD is    *)
(* not undone by its reset.  (fuel_farm.st:132-137)                        *)
(***************************************************************************)
RunsOnOrder == \A c \in Commands : cmd[c] => c \in ordered

(***************************************************************************)
(* Racks part only by their own inputs: the shared inputs, T-101's low     *)
(* level and the ESD, close both.  (fuel_farm.st:107-115)                  *)
(***************************************************************************)
SharedInputsCloseBoth ==
  \A q, r \in Racks \ touched :
    valve[q] /\ ~valve[r] =>
      seen[GroundOk[r]] = 0 \/ seen[Deadman[r]] = 0 \/ seen[Overfill[r]] = 1

===============================================================================
