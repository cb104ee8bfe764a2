----------------------------- MODULE OpenPlcProofs -----------------------------
(***************************************************************************)
(* Proofs about OpenPlcBootstrap, for any number of plays, edits, failures *)
(* and restarts of the container.                                          *)
(***************************************************************************)
EXTENDS OpenPlcBootstrap, TLAPS

-------------------------------------------------------------------------------
(***************************************************************************)
(* The repository's versions count the edits, and a play keeps asking for  *)
(* what it was started with.                                               *)
(***************************************************************************)
WantedCounts == role \in 1 .. edits + 1 /\ sizes \in 1 .. edits + 1

AsksForWanted == pc # "idle" => asked = sizes /\ file = role

(***************************************************************************)
(* A running program is the one compiled last and the one registered; an   *)
(* upload finds the runtime stopped; past the compilation binary and name  *)
(* agree, so that a start or a restart of the runtime takes the right one. *)
(* All of this goes only as far as no stop before an upload was refused.   *)
(***************************************************************************)
PastCompile == {"start", "query", "delete", "add", "restart", "restarting"}

NameAndBinaryAgree ==
  /\ running /\ "stop" \notin refused => loaded = registered /\ binary = registered
  /\ pc \in {"upload", "compile", "start"} /\ running => "stop" \in refused
  /\ pc \in PastCompile /\ "stop" \notin refused => binary = registered

(***************************************************************************)
(* No program runs unnamed: what the image brings is never started.        *)
(***************************************************************************)
RunningIsOurs ==
  /\ running => registered # 0
  /\ pc \in PastCompile \cup {"compile"} => registered # 0

(***************************************************************************)
(* What a play that found all as wanted, and read it so, may still meet:   *)
(* the runtime stopped by a restart of the container, or a slave device    *)
(* that is not the wanted one because the container was made anew.         *)
(***************************************************************************)
RightMeansRight ==
  /\ pc = "login" /\ right => ~ force /\ (running => AsWanted)
  /\ pc \in {"stop", "upload", "compile", "start"} /\ right => ~ running
  /\ pc = "query" /\ right /\ running => polled = row
  /\ pc \in {"delete", "add", "restart"} /\ right /\ running => polled # asked

PlcInv ==
  TypeOK /\ WantedCounts /\ AsksForWanted /\ NameAndBinaryAgree /\ RunningIsOurs /\ RightMeansRight

(***************************************************************************)
(* A running PLC polls what the database has, unless the device has just   *)
(* been deleted, or added and the runtime is about to be cycled, or it     *)
(* refused to be cycled.                                                   *)
(***************************************************************************)
PollsTheRow ==
  /\ running /\ "restart" \notin refused => polled = row \/ row = 0 \/ pc = "restart"
  /\ pc = "restarting" /\ running => "restart" \in refused
  /\ SlaveIsPolled

(***************************************************************************)
(* A running PLC runs the program on disk, unless this play has just put   *)
(* another one there and is on its way to stop it; what is compiled from   *)
(* then on is the file.                                                    *)
(***************************************************************************)
RunsTheFile ==
  /\ running /\ "stop" \notin refused => loaded = file \/ (pc = "login" /\ force) \/ pc = "stop"
  /\ pc = "compile" => registered = file
  /\ pc \in PastCompile /\ "stop" \notin refused => binary = file

-------------------------------------------------------------------------------
(***************************************************************************)
(* The induction that needs nothing of where plays fail.                   *)
(***************************************************************************)
LEMMA PlcInit == Init => PlcInv
<1> SUFFICES ASSUME Init PROVE PlcInv
  OBVIOUS
<1>1. TypeOK
  <2>1. force \in BOOLEAN /\ right \in BOOLEAN /\ running \in BOOLEAN
    BY Zenon DEF Init
  <2> QED
    BY <2>1, BoundAssumption DEF Init, TypeOK, Steps, Versions
<1>2. WantedCounts
  BY DEF Init, WantedCounts
<1>3. AsksForWanted /\ NameAndBinaryAgree /\ RunningIsOurs /\ RightMeansRight
  BY DEF Init, AsksForWanted, NameAndBinaryAgree, RunningIsOurs, RightMeansRight, PastCompile
<1> QED
  BY <1>1, <1>2, <1>3 DEF PlcInv

LEMMA TypeStep == TypeOK /\ WantedCounts /\ [Next]_vars => TypeOK' /\ WantedCounts'
<1> SUFFICES ASSUME TypeOK, WantedCounts, [Next]_vars PROVE TypeOK' /\ WantedCounts'
  OBVIOUS
<1> USE BoundAssumption DEF TypeOK, WantedCounts, Steps, Versions
<1>1. CASE Copy
  BY <1>1 DEF Copy, wanted, plc, runtime, bounds, AsWanted, Changed
<1>2. CASE Inspect
  BY <1>2 DEF Inspect, Then, ThenUnless, MayFail, wanted, plc, runtime
<1>3. CASE StopPlc
  <2>1. running' \in BOOLEAN
    BY <1>3, Zenon DEF StopPlc, Stopped
  <2> QED
    BY <1>3, <2>1 DEF StopPlc, Stopped, Then, ThenUnless, MayFail, wanted, plc
<1>4. CASE Upload
  BY <1>4 DEF Upload, Then, ThenUnless, MayFail, wanted, runtime
<1>5. CASE Compile
  BY <1>5 DEF Compile, Then, ThenUnless, MayFail, wanted, runtime
<1>6. CASE Start
  BY <1>6 DEF Start, Started, Then, ThenUnless, MayFail, wanted, plc
<1>7. CASE QuerySlave
  BY <1>7 DEF QuerySlave, ThenUnless, MayFail, wanted, plc, runtime
<1>8. CASE DeleteRow
  BY <1>8 DEF DeleteRow, ThenUnless, MayFail, wanted, runtime
<1>9. CASE AddDevice
  BY <1>9 DEF AddDevice, AfterAdd, Then, ThenUnless, MayFail, wanted, runtime
<1>10. CASE RestartStop
  <2>1. running' \in BOOLEAN
    BY <1>10, Zenon DEF RestartStop, Stopped
  <2> QED
    BY <1>10, <2>1 DEF RestartStop, Stopped, Then, ThenUnless, MayFail, wanted, plc
<1>11. CASE RestartStart
  BY <1>11 DEF RestartStart, Started, Then, ThenUnless, MayFail, wanted, plc
<1>12. CASE FailsBefore
  BY <1>12 DEF FailsBefore, MayFail, wanted, plc, runtime
<1>13. CASE Edit
  BY <1>13 DEF Edit, play, plc, runtime
<1>14. CASE ContainerRestarts
  <2>1. running' \in BOOLEAN
    BY <1>14, Zenon DEF ContainerRestarts, Stopped
  <2> QED
    BY <1>14, <2>1 DEF ContainerRestarts, Stopped, wanted, play, plc
<1>15. CASE ContainerRecreated
  <2>1. running' \in BOOLEAN
    BY <1>15, Zenon DEF ContainerRecreated, Stopped
  <2> QED
    BY <1>15, <2>1 DEF ContainerRecreated, Stopped, wanted, play
<1>16. CASE UNCHANGED vars
  BY <1>16 DEF vars, wanted, play, plc, runtime, bounds
<1>17. CASE StopRefused
  <2>1. UNCHANGED <<wanted, play, plc, running, loaded, polled, edits, restarts>>
    BY <1>17 DEF StopRefused, Refuse
  <2>2. pc' \in {"upload", "restarting"} /\ failures' \in 0 .. MaxFailures
    BY <1>17 DEF StopRefused, Refuse
  <2>3. refused' \subseteq {"stop", "restart"}
    BY <1>17 DEF StopRefused, Refuse
  <2> QED
    BY <2>1, <2>2, <2>3 DEF wanted, play, plc
<1> QED
  BY <1>1, <1>2, <1>3, <1>4, <1>5, <1>6, <1>7, <1>8, <1>9, <1>10, <1>11, <1>12, <1>13, <1>14,
     <1>15, <1>16, <1>17 DEF Next, PlayStep

(***************************************************************************)
(* A play's steps leave what is asked for alone.                           *)
(***************************************************************************)
LEMMA AsksStep ==
  ASSUME AsksForWanted, [Next]_vars PROVE AsksForWanted'
<1> USE DEF AsksForWanted, Steps
<1>1. CASE Copy
  BY <1>1 DEF Copy, wanted
<1>2. CASE Inspect \/ StopPlc \/ Upload \/ Compile \/ Start
  BY <1>2 DEF Inspect, StopPlc, Upload, Compile, Start, Then, ThenUnless, wanted
<1>3. CASE QuerySlave \/ DeleteRow \/ AddDevice \/ RestartStop \/ RestartStart
  BY <1>3 DEF QuerySlave, DeleteRow, AddDevice, RestartStop, RestartStart, Then, ThenUnless, wanted
<1>4. CASE FailsBefore \/ Edit \/ StopRefused
  BY <1>4 DEF FailsBefore, Edit, StopRefused, Refuse, wanted, play
<1>5. CASE ContainerRestarts \/ ContainerRecreated \/ UNCHANGED vars
  BY <1>5 DEF ContainerRestarts, ContainerRecreated, vars, wanted, play
<1> QED
  BY <1>1, <1>2, <1>3, <1>4, <1>5 DEF Next, PlayStep

(***************************************************************************)
(* Binary and name agree where they have to: an upload parts them while    *)
(* the runtime is stopped, and the compilation joins them again.           *)
(***************************************************************************)
LEMMA AgreeStep ==
  ASSUME NameAndBinaryAgree, [Next]_vars PROVE NameAndBinaryAgree'
<1> USE DEF NameAndBinaryAgree, PastCompile
<1>1. CASE Copy
  BY <1>1 DEF Copy, plc, runtime
<1>2. CASE Inspect
  BY <1>2 DEF Inspect, ProgramOk, Then, ThenUnless, plc, runtime
<1>3. CASE StopPlc
  BY <1>3 DEF StopPlc, Stopped, Then, ThenUnless, plc
<1>4. CASE Upload
  BY <1>4 DEF Upload, Then, ThenUnless, runtime
<1>5. CASE Compile
  BY <1>5 DEF Compile, Then, ThenUnless, runtime
<1>6. CASE Start \/ RestartStart
  BY <1>6 DEF Start, RestartStart, Started, Then, ThenUnless, plc
<1>7. CASE QuerySlave
  BY <1>7 DEF QuerySlave, ThenUnless, plc, runtime
<1>8. CASE DeleteRow \/ AddDevice \/ RestartStop
  BY <1>8 DEF DeleteRow, AddDevice, AfterAdd, RestartStop, Stopped, Then, ThenUnless, plc, runtime
<1>9. CASE FailsBefore \/ Edit
  BY <1>9 DEF FailsBefore, Edit, plc, runtime
<1>10. CASE ContainerRestarts \/ ContainerRecreated \/ UNCHANGED vars
  BY <1>10 DEF ContainerRestarts, ContainerRecreated, Stopped, vars, plc, runtime
<1>11. CASE StopRefused
  BY <1>11 DEF StopRefused, Refuse, plc
<1> QED
  BY <1>1, <1>2, <1>3, <1>4, <1>5, <1>6, <1>7, <1>8, <1>9, <1>10, <1>11 DEF Next, PlayStep

(***************************************************************************)
(* Only a program that an upload has registered is ever started.           *)
(***************************************************************************)
LEMMA OursStep ==
  ASSUME TypeOK, WantedCounts, AsksForWanted, RunningIsOurs, [Next]_vars PROVE RunningIsOurs'
<1> USE DEF RunningIsOurs, PastCompile
<1>1. CASE Copy
  BY <1>1 DEF Copy, plc, runtime
<1>2. CASE Inspect
  BY <1>2 DEF Inspect, ProgramOk, Then, ThenUnless, plc, runtime
<1>3. CASE StopPlc \/ RestartStop
  BY <1>3 DEF StopPlc, RestartStop, Stopped, Then, ThenUnless, plc
<1>4. CASE Upload
  <2>1. file # 0
    BY <1>4 DEF Upload, Then, ThenUnless, AsksForWanted, WantedCounts, TypeOK
  <2> QED
    BY <1>4, <2>1 DEF Upload, Then, ThenUnless, runtime
<1>5. CASE Compile
  BY <1>5 DEF Compile, Then, ThenUnless, runtime
<1>6. CASE Start \/ RestartStart
  BY <1>6 DEF Start, RestartStart, Started, Then, ThenUnless, plc
<1>7. CASE QuerySlave
  BY <1>7 DEF QuerySlave, ThenUnless, plc, runtime
<1>8. CASE DeleteRow \/ AddDevice
  BY <1>8 DEF DeleteRow, AddDevice, AfterAdd, Then, ThenUnless, plc, runtime
<1>9. CASE FailsBefore \/ Edit \/ StopRefused
  BY <1>9 DEF FailsBefore, Edit, StopRefused, Refuse, plc, runtime
<1>10. CASE ContainerRestarts \/ ContainerRecreated \/ UNCHANGED vars
  BY <1>10 DEF ContainerRestarts, ContainerRecreated, Stopped, vars, plc, runtime
<1> QED
  BY <1>1, <1>2, <1>3, <1>4, <1>5, <1>6, <1>7, <1>8, <1>9, <1>10 DEF Next, PlayStep

(***************************************************************************)
(* A play that found all as wanted stays harmless.                         *)
(***************************************************************************)
LEMMA RightStep ==
  ASSUME PlcInv, [Next]_vars PROVE RightMeansRight'
<1>0. TypeOK /\ WantedCounts /\ AsksForWanted /\ RunningIsOurs /\ RightMeansRight
  BY DEF PlcInv
<1> USE DEF RightMeansRight, Steps
<1>1. CASE Copy
  BY <1>1 DEF Copy, AsWanted, Changed, wanted, plc, runtime
<1>2. CASE Inspect
  <2>1. running /\ right => ProgramOk /\ polled = row
    BY <1>0, <1>2, BoundAssumption
      DEF Inspect, Then, ThenUnless, ProgramOk, AsWanted, RunningIsOurs,
                     WantedCounts, TypeOK
  <2> QED
    BY <1>2, <2>1 DEF Inspect, Then, ThenUnless, plc, runtime
<1>3. CASE StopPlc \/ Upload \/ Compile
  BY <1>0, <1>3 DEF StopPlc, Stopped, Upload, Compile, Then, ThenUnless, runtime
<1>4. CASE Start \/ RestartStart
  BY <1>0, <1>4 DEF Start, RestartStart, Started, Then, ThenUnless, plc
<1>5. CASE QuerySlave
  BY <1>0, <1>5 DEF QuerySlave, Configured, ThenUnless, plc, runtime
<1>6. CASE DeleteRow
  BY <1>0, <1>6 DEF DeleteRow, ThenUnless, runtime
<1>7. CASE AddDevice
  BY <1>0, <1>7 DEF AddDevice, AfterAdd, Then, ThenUnless, runtime
<1>8. CASE RestartStop
  BY <1>0, <1>8 DEF RestartStop, Stopped, Then, ThenUnless
<1>9. CASE FailsBefore \/ Edit
  BY <1>0, <1>9 DEF FailsBefore, Edit, plc, runtime
<1>10. CASE ContainerRestarts \/ ContainerRecreated
  <2>1. ~ running' /\ pc' = pc /\ right' = right /\ force' = force
    BY <1>10 DEF ContainerRestarts, ContainerRecreated, Stopped, play
  <2> QED
    BY <1>0, <2>1
<1>11. CASE UNCHANGED vars
  BY <1>0, <1>11 DEF vars, wanted, play, plc, runtime, AsWanted
<1>12. CASE StopRefused
  BY <1>0, <1>12 DEF StopRefused, Refuse, play
<1> QED
  BY <1>1, <1>2, <1>3, <1>4, <1>5, <1>6, <1>7, <1>8, <1>9, <1>10, <1>11, <1>12 DEF Next, PlayStep

LEMMA PlcInvariant == Spec => []PlcInv
<1>1. PlcInv /\ [Next]_vars => PlcInv'
  BY TypeStep, AsksStep, AgreeStep, OursStep, RightStep DEF PlcInv
<1> QED
  BY <1>1, PlcInit, PTL DEF Spec

(***************************************************************************)
(* The play, the PLC and the repository keep their types.                  *)
(***************************************************************************)
THEOREM TypeCorrect == Spec => []TypeOK
<1>1. PlcInv => TypeOK
  BY DEF PlcInv
<1> QED
  BY <1>1, PlcInvariant, PTL

(***************************************************************************)
(* A running PLC runs the program its dashboard names, wherever plays fail *)
(* and whenever the container restarts: no start takes a program that was  *)
(* uploaded and never compiled.  The one exception is a runtime that       *)
(* outlived the unexamined /stop_plc before an upload.                     *)
(***************************************************************************)
THEOREM RunningIsNamed == Spec => []RunsWhatItNames
<1>1. PlcInv => RunsWhatItNames
  BY DEF PlcInv, NameAndBinaryAgree, RunsWhatItNames
<1> QED
  BY <1>1, PlcInvariant, PTL

(***************************************************************************)
(* A play interrupts no PLC that is as wanted, whatever failed before, if  *)
(* its query of the slave device was answered (main.yml:95).               *)
(***************************************************************************)
THEOREM NeverStoppedInVain == Spec => NoNeedlessStop
<1>1. PlcInv /\ [Next]_vars => [AsWanted /\ right /\ restarts' = restarts => running']_vars
  <2> SUFFICES ASSUME PlcInv, Next, AsWanted, right, restarts' = restarts PROVE running'
    BY DEF vars
  <2>1. running
    BY DEF AsWanted
  <2>2. CASE Copy \/ Inspect \/ Upload \/ Compile \/ QuerySlave \/ DeleteRow \/ AddDevice
    BY <2>1, <2>2 DEF Copy, Inspect, Upload, Compile, QuerySlave, DeleteRow, AddDevice, runtime
  <2>3. CASE Start \/ RestartStart
    BY <2>3 DEF Start, RestartStart, Started
  <2>4. CASE StopPlc
    BY <2>1, <2>4 DEF StopPlc, Then, ThenUnless, PlcInv, RightMeansRight
  <2>5. CASE RestartStop
    BY <2>1, <2>5
      DEF RestartStop, Then, ThenUnless, PlcInv, RightMeansRight, AsksForWanted, AsWanted
  <2>6. CASE FailsBefore \/ Edit \/ StopRefused
    BY <2>1, <2>6 DEF FailsBefore, Edit, StopRefused, Refuse, runtime
  <2>7. CASE ContainerRestarts \/ ContainerRecreated
    BY <2>7 DEF ContainerRestarts, ContainerRecreated, PlcInv, TypeOK
  <2> QED
    BY <2>2, <2>3, <2>4, <2>5, <2>6, <2>7 DEF Next, PlayStep
<1> QED
  BY <1>1, PlcInvariant, PTL DEF Spec, NoNeedlessStop

-------------------------------------------------------------------------------
(***************************************************************************)
(* A play that ends well leaves a PLC that polls the slave device of its   *)
(* database (openplc_bootstrap.py:563) unless the runtime outlived the     *)
(* stop that cycles it, wherever else plays fail: all that is asked is     *)
(* that no play dies of the answer to /add-modbus-device or of the stop    *)
(* after it.  A device added by then is one the next play finds as it      *)
(* should be, and does not cycle the runtime for.                          *)
(***************************************************************************)
THEOREM SlavePolled ==
  ASSUME {"add", "restart"} \cap FailAt = {}
  PROVE  Spec => []SlaveIsPolled
<1>0. "add" \notin FailAt /\ "restart" \notin FailAt
  OBVIOUS
<1>1. Init => PollsTheRow
  BY DEF Init, PollsTheRow, SlaveIsPolled
<1>2. PlcInv /\ PollsTheRow /\ [Next]_vars => PollsTheRow'
  <2> SUFFICES ASSUME PlcInv, PollsTheRow, [Next]_vars PROVE PollsTheRow'
    OBVIOUS
  <2>0. TypeOK /\ WantedCounts /\ AsksForWanted
    BY DEF PlcInv
  <2> USE DEF PollsTheRow, SlaveIsPolled
  <2>1. CASE Copy
    BY <2>1 DEF Copy, plc, runtime
  <2>2. CASE Inspect
    BY <2>2 DEF Inspect, Then, ThenUnless, plc, runtime
  <2>3. CASE StopPlc
    BY <2>3 DEF StopPlc, Stopped, Then, ThenUnless
  <2>4. CASE Upload
    BY <2>4 DEF Upload, Then, ThenUnless, runtime
  <2>5. CASE Compile
    BY <2>5 DEF Compile, Then, ThenUnless, runtime
  <2>6. CASE Start \/ RestartStart
    BY <2>6 DEF Start, RestartStart, Started, Then, ThenUnless, plc
  <2>7. CASE QuerySlave
    <3>1. PICK found \in {row} \cup Misreadings :
            ThenUnless(found # row, "query", IF Configured(found) THEN "idle"
                                             ELSE IF found = 0 THEN "add" ELSE "delete")
      BY <2>7 DEF QuerySlave
    <3>2. asked \in 1 .. MaxEdits + 1
      BY <2>0, <3>1, BoundAssumption DEF ThenUnless, AsksForWanted, WantedCounts, TypeOK
    <3>3. Configured(found) => row # 0 /\ found = row
      BY <3>2, BoundAssumption DEF Configured, Misreadings
    <3>4. UNCHANGED <<row, running, polled, refused>>
      BY <2>7 DEF QuerySlave, plc, runtime
    <3> QED
      BY <3>1, <3>3, <3>4 DEF ThenUnless
  <2>8. CASE DeleteRow
    BY <2>8 DEF DeleteRow, ThenUnless, runtime
  <2>9. CASE AddDevice
    BY <2>9, <1>0 DEF AddDevice, AfterAdd, Then, ThenUnless, MayFail, runtime
  <2>10. CASE RestartStop
    BY <2>10 DEF RestartStop, Stopped, Then, ThenUnless
  <2>11. CASE FailsBefore
    BY <2>11, <1>0 DEF FailsBefore, MayFail, plc, runtime
  <2>12. CASE Edit
    BY <2>12 DEF Edit, play, plc, runtime
  <2>13. CASE ContainerRestarts \/ ContainerRecreated
    BY <2>13 DEF ContainerRestarts, ContainerRecreated, Stopped, play
  <2>14. CASE UNCHANGED vars
    BY <2>14 DEF vars, play, plc, runtime
  <2>15. CASE StopRefused
    BY <2>15 DEF StopRefused, Refuse, play, plc
  <2> QED
    BY <2>1, <2>2, <2>3, <2>4, <2>5, <2>6, <2>7, <2>8, <2>9, <2>10, <2>11, <2>12, <2>13, <2>14,
       <2>15
       DEF Next, PlayStep
<1>3. PollsTheRow => SlaveIsPolled
  BY DEF PollsTheRow
<1> QED
  BY <1>1, <1>2, <1>3, PlcInvariant, PTL DEF Spec

(***************************************************************************)
(* A play that ends well leaves a running PLC with the program on disk     *)
(* (main.yml:97) if no play that has copied the file dies before it has    *)
(* stopped the runtime, and the runtime outlived no stop; whatever else    *)
(* fails from there on is made up for.                                     *)
(***************************************************************************)
THEOREM ProgramCurrent ==
  ASSUME {"login", "stop"} \cap FailAt = {}
  PROVE  Spec => []ProgramIsCurrent
<1>0. "login" \notin FailAt /\ "stop" \notin FailAt
  OBVIOUS
<1>1. Init => RunsTheFile
  BY DEF Init, RunsTheFile, PastCompile
<1>2. PlcInv /\ RunsTheFile /\ [Next]_vars => RunsTheFile'
  <2> SUFFICES ASSUME PlcInv, RunsTheFile, [Next]_vars PROVE RunsTheFile'
    OBVIOUS
  <2>0. TypeOK /\ NameAndBinaryAgree
    BY DEF PlcInv
  <2> USE DEF RunsTheFile, PastCompile
  <2>1. CASE Copy
    BY <2>1 DEF Copy, Changed, plc, runtime
  <2>2. CASE Inspect
    <3>1. ProgramOk => running /\ ~ force
      BY DEF ProgramOk
    <3> QED
      BY <1>0, <2>0, <2>2, <3>1
        DEF Inspect, Then, ThenUnless, MayFail, NameAndBinaryAgree, plc, runtime
  <2>3. CASE StopPlc
    BY <2>3 DEF StopPlc, Stopped, Then, ThenUnless
  <2>4. CASE Upload
    BY <2>0, <2>4 DEF Upload, Then, ThenUnless, NameAndBinaryAgree, runtime
  <2>5. CASE Compile
    BY <2>0, <2>5 DEF Compile, Then, ThenUnless, NameAndBinaryAgree, runtime
  <2>6. CASE Start
    BY <2>0, <2>6 DEF Start, Started, Then, ThenUnless, NameAndBinaryAgree, plc
  <2>7. CASE RestartStart
    BY <2>7 DEF RestartStart, Started, Then, ThenUnless, plc
  <2>8. CASE QuerySlave
    BY <2>8 DEF QuerySlave, ThenUnless, plc, runtime
  <2>9. CASE DeleteRow
    BY <2>9 DEF DeleteRow, ThenUnless, runtime
  <2>10. CASE AddDevice
    BY <2>10 DEF AddDevice, AfterAdd, Then, ThenUnless, runtime
  <2>11. CASE RestartStop
    BY <2>11 DEF RestartStop, Stopped, Then, ThenUnless, plc
  <2>12. CASE FailsBefore
    BY <2>12, <1>0 DEF FailsBefore, MayFail, plc, runtime
  <2>13. CASE Edit
    BY <2>13 DEF Edit, play, plc, runtime
  <2>14. CASE ContainerRestarts \/ ContainerRecreated
    BY <2>14 DEF ContainerRestarts, ContainerRecreated, Stopped, play, plc
  <2>15. CASE UNCHANGED vars
    BY <2>15 DEF vars, play, plc, runtime
  <2>16. CASE StopRefused
    BY <2>16 DEF StopRefused, Refuse, play, plc
  <2> QED
    BY <2>1, <2>2, <2>3, <2>4, <2>5, <2>6, <2>7, <2>8, <2>9, <2>10, <2>11, <2>12, <2>13, <2>14,
       <2>15, <2>16 DEF Next, PlayStep
<1>3. RunsTheFile => ProgramIsCurrent
  BY DEF RunsTheFile, ProgramIsCurrent
<1> QED
  BY <1>1, <1>2, <1>3, PlcInvariant, PTL DEF Spec
===============================================================================
