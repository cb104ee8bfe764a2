---------------------------- MODULE ScheduleProofs ----------------------------
(***************************************************************************)
(* Proofs about the two generators: Schedule, for every cycle, every orbit *)
(* duration and interval it can be started with sensibly, every draw of    *)
(* its random generator and every geometry (the legs' times); and          *)
(* Timeline, for any number of hours, any surge windows and every draw.    *)
(* And about AtcFeed, which replays the first one's schedule to any number *)
(* of clients.                                                             *)
(***************************************************************************)
EXTENDS Schedule, Timeline, AtcFeed, SequenceTheorems, TLAPS

-------------------------------------------------------------------------------
(***************************************************************************)
(* Rounding.                                                               *)
(***************************************************************************)

(***************************************************************************)
(* Rounding and truncation keep the order of times and do not pass a whole *)
(* second.                                                                 *)
(***************************************************************************)
LEMMA OffsetBounds ==
  ASSUME NEW k, NEW m \in Nat
  PROVE  /\ OffsetOf(k, m) \in Nat
         /\ \A s \in Nat : m <= 1000 * s => OffsetOf(k, m) <= s
         /\ \A s \in Nat : m > 1000 * s => OffsetOf(k, m) >= s
  BY DEF OffsetOf, Rounded

LEMMA OffsetMonotone ==
  ASSUME NEW k, NEW m \in Nat, NEW d \in Nat
  PROVE  OffsetOf(k, m) <= OffsetOf(k, m + d)
<1>1. CASE k = "transit"
  BY <1>1 DEF OffsetOf
<1>2. CASE k # "transit"
  BY <1>2 DEF OffsetOf, Rounded
<1> QED
  BY <1>1, <1>2

(***************************************************************************)
(* A waypoint that is not earlier than the last keeps the offsets in order.*)
(***************************************************************************)
LEMMA AppendAscends ==
  ASSUME NEW offs \in Seq(Nat), Ascends(offs), NEW v \in Nat, LastOf(offs) <= v
  PROVE  /\ Append(offs, v) \in Seq(Nat)
         /\ Ascends(Append(offs, v))
         /\ LastOf(Append(offs, v)) = v
<1> DEFINE new == Append(offs, v)
<1>1. /\ new \in Seq(Nat) /\ Len(new) = Len(offs) + 1
      /\ new[Len(offs) + 1] = v
      /\ \A i \in 1 .. Len(offs) : new[i] = offs[i]
      /\ Len(offs) \in Nat
  OBVIOUS
<1> HIDE DEF new
<1>2. \A i \in 1 .. Len(offs) : offs[i] \in Nat /\ offs[i] <= v
  BY DEF Ascends, LastOf
<1> QED
  BY <1>1, <1>2 DEF Ascends, LastOf, new

-------------------------------------------------------------------------------
(***************************************************************************)
(* Types, and the flight under construction.                               *)
(***************************************************************************)

(***************************************************************************)
(* A flight under construction has its offsets in order, the last one at   *)
(* its clock; a loiter is inside its hold, and the hold long enough.       *)
(***************************************************************************)
UnderConstruction ==
  /\ phase \in {"lap", "build"} => Ascends(offsets) /\ LastOf(offsets) = OffsetOf(kind, ms)
  /\ phase = "lap" => /\ kind = "orbit" /\ t < Cycle
                      /\ Hold >= MinHold /\ ms <= 1000 * Hold
  /\ phase = "build" => kind \in Movements

LEMMA StepTypes ==
  ASSUME Sensible
  PROVE  /\ MinStep \in Nat /\ MaxStep \in Nat
         /\ OrbitDur < 2 * MinStep /\ MaxStep <= OrbitDur
         /\ 0 < MinStep
         /\ (60 * Interval) \div 100 \in Nat /\ 0 < (60 * Interval) \div 100
  BY DEF Sensible, MinStep, MaxStep

LEMMA HoldType ==
  ASSUME Sensible, t \in Nat, t < Cycle
  PROVE  Hold \in Nat /\ Hold <= OrbitDur /\ t + Hold <= Cycle
  BY DEF Sensible, Hold

(***************************************************************************)
(* A flight that is emitted is one, and its construction is sound.         *)
(***************************************************************************)
LEMMA FirstWaypoint ==
  /\ <<0>> \in Seq(Nat) /\ Ascends(<<0>>) /\ LastOf(<<0>>) = 0
  /\ \A k : OffsetOf(k, 0) = 0
  BY DEF Ascends, LastOf, OffsetOf, Rounded

LEMMA LastType ==
  ASSUME NEW offs \in Seq(Nat), Ascends(offs)
  PROVE  LastOf(offs) \in Nat
  BY DEF Ascends, LastOf

(***************************************************************************)
(* Types and construction hold throughout.                                 *)
(***************************************************************************)
THEOREM ConstructionCorrect ==
  ASSUME Sensible
  PROVE  ScheduleSpec => [](ScheduleTypeOK /\ UnderConstruction)
<1> DEFINE Sound == ScheduleTypeOK /\ UnderConstruction
<1>1. ScheduleInit => Sound
  BY DEF ScheduleInit, ScheduleTypeOK, UnderConstruction, Kinds
<1>2. Sound /\ [ScheduleNext]_scheduleVars => Sound'
  <2> SUFFICES ASSUME ScheduleTypeOK, UnderConstruction, [ScheduleNext]_scheduleVars PROVE Sound'
    OBVIOUS
  <2>1. CASE StartLoiter
    BY <2>1, FirstWaypoint DEF StartLoiter, ScheduleTypeOK, UnderConstruction, Kinds, Hold, Sensible
  <2>2. CASE SkipLoiter
    <3>1. t' \in Nat
      BY <2>2, StepTypes DEF SkipLoiter, NextLoiter, ScheduleTypeOK
    <3> QED
      BY <2>2, <3>1 DEF SkipLoiter, ScheduleTypeOK, UnderConstruction
  <2>3. CASE LapNode
    <3>1. PICK leg \in Legs : ms + leg <= 1000 * Hold /\ ms' = ms + leg
      BY <2>3 DEF LapNode
    <3>2. leg \in Nat /\ ms \in Nat
      BY DEF Sensible, ScheduleTypeOK
    <3>3. /\ offsets \in Seq(Nat) /\ Ascends(offsets) /\ LastOf(offsets) = OffsetOf(kind, ms)
          /\ offsets' = Append(offsets, OffsetOf(kind, ms')) /\ UNCHANGED <<phase, t, kind>>
          /\ phase = "lap"
      BY <2>3 DEF LapNode, UnderConstruction, ScheduleTypeOK
    <3>4. OffsetOf(kind, ms') \in Nat /\ LastOf(offsets) <= OffsetOf(kind, ms')
      <4>1. ms + leg \in Nat /\ ms' = ms + leg
        BY <3>1, <3>2
      <4>2. OffsetOf(kind, ms + leg) \in Nat
        BY <4>1, OffsetBounds, ZenonT(40)
      <4>3. OffsetOf(kind, ms) <= OffsetOf(kind, ms + leg)
        BY <3>2, OffsetMonotone, Zenon
      <4> QED
        BY <3>3, <4>1, <4>2, <4>3
    <3>5. offsets' \in Seq(Nat) /\ Ascends(offsets') /\ LastOf(offsets') = OffsetOf(kind, ms')
      BY <3>3, <3>4, AppendAscends
    <3>6. ms' \in Nat /\ ms' <= 1000 * Hold /\ Hold' = Hold
      BY <3>1, <3>2, <3>3 DEF Hold
    <3> QED
      BY <2>3, <3>3, <3>5, <3>6 DEF LapNode, ScheduleTypeOK, UnderConstruction
  <2>4. CASE LapOver
    <3>1. t' \in Nat
      BY <2>4, StepTypes DEF LapOver, NextLoiter, ScheduleTypeOK
    <3>2. flights' \subseteq ScheduledFlight /\ n' \in Nat
      BY <2>4 DEF LapOver, Emit, ScheduleTypeOK, ScheduledFlight
    <3> QED
      BY <2>4, <3>1, <3>2 DEF LapOver, ScheduleTypeOK, UnderConstruction
  <2>5. CASE LoitersDone
    BY <2>5 DEF LoitersDone, ScheduleTypeOK, UnderConstruction
  <2>6. CASE StartMovement
    <3>1. kind' \in Movements /\ left' \in Nat
      BY <2>6 DEF StartMovement, Anchors
    <3> QED
      BY <2>6, <3>1, FirstWaypoint DEF StartMovement, ScheduleTypeOK, UnderConstruction, Kinds
  <2>7. CASE BuildAnchor
    <3>1. PICK leg \in Legs : ms' = ms + leg
      BY <2>7 DEF BuildAnchor
    <3>2. leg \in Nat /\ ms \in Nat
      BY DEF Sensible, ScheduleTypeOK
    <3>3. /\ offsets \in Seq(Nat) /\ Ascends(offsets) /\ LastOf(offsets) = OffsetOf(kind, ms)
          /\ offsets' = Append(offsets, OffsetOf(kind, ms')) /\ UNCHANGED <<phase, t, kind>>
          /\ phase = "build"
      BY <2>7 DEF BuildAnchor, UnderConstruction, ScheduleTypeOK
    <3>4. OffsetOf(kind, ms') \in Nat /\ LastOf(offsets) <= OffsetOf(kind, ms')
      <4>1. ms + leg \in Nat /\ ms' = ms + leg
        BY <3>1, <3>2
      <4>2. OffsetOf(kind, ms + leg) \in Nat
        BY <4>1, OffsetBounds, ZenonT(40)
      <4>3. OffsetOf(kind, ms) <= OffsetOf(kind, ms + leg)
        BY <3>2, OffsetMonotone, Zenon
      <4> QED
        BY <3>3, <4>1, <4>2, <4>3
    <3>5. offsets' \in Seq(Nat) /\ Ascends(offsets') /\ LastOf(offsets') = OffsetOf(kind, ms')
      BY <3>3, <3>4, AppendAscends
    <3>6. ms' \in Nat /\ left' \in Nat
      BY <2>7, <3>1, <3>2 DEF BuildAnchor, ScheduleTypeOK
    <3> QED
      BY <2>7, <3>3, <3>5, <3>6 DEF BuildAnchor, ScheduleTypeOK, UnderConstruction
  <2>8. CASE FileMovement
    <3>1. t' \in Nat
      BY <2>8, StepTypes DEF FileMovement, ScheduleTypeOK, Sensible
    <3>2. flights' \subseteq ScheduledFlight /\ n' \in Nat
      BY <2>8 DEF FileMovement, Emit, ScheduleTypeOK, ScheduledFlight
    <3> QED
      BY <2>8, <3>1, <3>2 DEF FileMovement, ScheduleTypeOK, UnderConstruction
  <2>9. CASE MovementsDone
    BY <2>9 DEF MovementsDone, ScheduleTypeOK, UnderConstruction
  <2>10. CASE UNCHANGED scheduleVars
    <3>1. Hold' = Hold
      BY <2>10 DEF scheduleVars, Hold
    <3> QED
      BY <2>10, <3>1 DEF scheduleVars, ScheduleTypeOK, UnderConstruction
  <2> QED
    BY <2>1, <2>2, <2>3, <2>4, <2>5, <2>6, <2>7, <2>8, <2>9, <2>10 DEF ScheduleNext
<1> QED
  BY <1>1, <1>2, PTL DEF ScheduleSpec

-------------------------------------------------------------------------------
(***************************************************************************)
(* The flights.                                                            *)
(***************************************************************************)

(***************************************************************************)
(* The offsets of every flight ascend from 0.                              *)
(***************************************************************************)
THEOREM FlightsAscend ==
  ASSUME Sensible
  PROVE  ScheduleSpec => []OffsetsAscend
<1>1. ScheduleInit => OffsetsAscend
  BY DEF ScheduleInit, OffsetsAscend
<1>2. ScheduleTypeOK /\ UnderConstruction /\ OffsetsAscend /\ [ScheduleNext]_scheduleVars
        => OffsetsAscend'
  <2> SUFFICES ASSUME UnderConstruction, OffsetsAscend, [ScheduleNext]_scheduleVars,
                      NEW f \in flights'
               PROVE  Ascends(f.offsets)
    BY DEF OffsetsAscend
  <2>1. CASE f \in flights
    BY <2>1 DEF OffsetsAscend
  <2>2. CASE f \notin flights
    <3>1. (LapOver \/ FileMovement) /\ Emit
      BY <2>2 DEF ScheduleNext, StartLoiter, SkipLoiter, LapNode, LapOver, LoitersDone,
                  StartMovement,
                  BuildAnchor, FileMovement, MovementsDone, scheduleVars
    <3>2. f.offsets = offsets /\ phase \in {"lap", "build"}
      BY <2>2, <3>1 DEF Emit, LapOver, FileMovement
    <3> QED
      BY <3>2 DEF UnderConstruction
  <2> QED
    BY <2>1, <2>2
<1> QED
  BY <1>1, <1>2, ConstructionCorrect, PTL DEF ScheduleSpec

(***************************************************************************)
(* Numbers are given once.                                                 *)
(***************************************************************************)
THEOREM AddressesUnique ==
  ASSUME Sensible
  PROVE  ScheduleSpec => []AddressesDiffer
<1> DEFINE Below == AddressesDiffer /\ \A f \in flights : f.n < n
<1>1. ScheduleInit => Below
  BY DEF ScheduleInit, AddressesDiffer
<1>2. ScheduleTypeOK /\ Below /\ [ScheduleNext]_scheduleVars => Below'
  <2> SUFFICES ASSUME ScheduleTypeOK, AddressesDiffer, \A f \in flights : f.n < n,
                      [ScheduleNext]_scheduleVars
               PROVE  Below'
    OBVIOUS
  <2>1. CASE flights' = flights /\ n' = n
    BY <2>1 DEF AddressesDiffer
  <2>2. CASE Emit
    <3> DEFINE new == [n |-> n, kind |-> kind, dep |-> t, offsets |-> offsets]
    <3>1. flights' = flights \cup {new} /\ n' = n + 1 /\ new.n = n
      BY <2>2 DEF Emit
    <3>2. n \in Nat /\ \A f \in flights : f.n \in Nat /\ f.n < n
      BY DEF ScheduleTypeOK, ScheduledFlight
    <3> HIDE DEF new
    <3> QED
      BY <3>1, <3>2 DEF AddressesDiffer
  <2> QED
    BY <2>1, <2>2 DEF ScheduleNext, StartLoiter, SkipLoiter, LapNode, LapOver, LoitersDone,
                      StartMovement,
                      BuildAnchor, FileMovement, MovementsDone, scheduleVars
<1>3. Below => AddressesDiffer
  OBVIOUS
<1> QED
  BY <1>1, <1>2, <1>3, ConstructionCorrect, PTL DEF ScheduleSpec

(***************************************************************************)
(* No flight is aloft when the cycle wraps: a loiter's hold ends by then,  *)
(* and rounding the time of its last node does not take it beyond.         *)
(***************************************************************************)
THEOREM NoFlightWraps ==
  ASSUME Sensible
  PROVE  ScheduleSpec => []NobodyAloftAtTheWrap
<1>1. ScheduleInit => NobodyAloftAtTheWrap
  BY DEF ScheduleInit, NobodyAloftAtTheWrap
<1>2. ScheduleTypeOK /\ UnderConstruction /\ NobodyAloftAtTheWrap /\ [ScheduleNext]_scheduleVars
        => NobodyAloftAtTheWrap'
  <2> SUFFICES ASSUME ScheduleTypeOK, UnderConstruction, NobodyAloftAtTheWrap,
                      [ScheduleNext]_scheduleVars,
                      NEW f \in flights'
               PROVE  f.dep + LastOf(f.offsets) <= Cycle
    BY DEF NobodyAloftAtTheWrap
  <2>1. CASE f \in flights
    BY <2>1 DEF NobodyAloftAtTheWrap
  <2>2. CASE f \notin flights /\ LapOver
    <3>1. f.dep = t /\ f.offsets = offsets
      BY <2>2 DEF LapOver, Emit
    <3>2. t < Cycle /\ ms <= 1000 * Hold /\ LastOf(offsets) = OffsetOf(kind, ms)
      BY <2>2 DEF LapOver, UnderConstruction
    <3>3. t \in Nat /\ ms \in Nat
      BY DEF ScheduleTypeOK
    <3>4. Hold \in Nat /\ t + Hold <= Cycle
      BY <3>2, <3>3, HoldType
    <3>5. LastOf(offsets) \in Nat /\ LastOf(offsets) <= Hold
      BY <3>2, <3>3, <3>4, OffsetBounds
    <3> QED
      BY <3>1, <3>3, <3>4, <3>5 DEF Sensible
  <2>3. CASE f \notin flights /\ FileMovement
    BY <2>3 DEF FileMovement, Emit
  <2> QED
    BY <2>1, <2>2, <2>3 DEF ScheduleNext, StartLoiter, SkipLoiter, LapNode, LoitersDone,
                            StartMovement, BuildAnchor, MovementsDone, scheduleVars
<1> QED
  BY <1>1, <1>2, ConstructionCorrect, PTL DEF ScheduleSpec

-------------------------------------------------------------------------------
(***************************************************************************)
(* The station.                                                            *)
(***************************************************************************)

(***************************************************************************)
(* While loiters are drawn: each holds no longer than OrbitDur, and any    *)
(* two, the next one included, depart at least MinStep apart.              *)
(***************************************************************************)
Spaced ==
  /\ phase \in {"loiters", "lap"} => \A f \in Loiters : f.dep + MinStep <= t
  /\ \A f \in Loiters : LastOf(f.offsets) <= OrbitDur
  /\ \A f, g \in Loiters : f # g => f.dep + MinStep <= g.dep \/ g.dep + MinStep <= f.dep

(***************************************************************************)
(* The moments before the loop's clock are covered, but for a leg and the  *)
(* end of the cycle.                                                       *)
(***************************************************************************)
CoveredUntil(u) ==
  \A x \in 0 .. (Cycle - MinHold) : x < u =>
    \E f \in Loiters : f.dep <= x /\ x <= f.dep + LastOf(f.offsets) + MaxLeg

(***************************************************************************)
(* Only the end of a lap adds a loiter, and this one: a hold, less at most *)
(* a leg, long.                                                            *)
(***************************************************************************)
LEMMA NewLoiter ==
  ASSUME Sensible, ScheduleTypeOK, UnderConstruction, LapOver
  PROVE  LET new == [n |-> n, kind |-> kind, dep |-> t, offsets |-> offsets]
         IN  /\ Loiters' = Loiters \cup {new}
             /\ new.dep = t
             /\ LastOf(new.offsets) \in Nat
             /\ LastOf(new.offsets) <= Hold
             /\ Hold <= LastOf(new.offsets) + MaxLeg
<1> DEFINE new == [n |-> n, kind |-> kind, dep |-> t, offsets |-> offsets]
<1>1. /\ kind = "orbit" /\ t < Cycle /\ ms <= 1000 * Hold
      /\ LastOf(offsets) = OffsetOf(kind, ms)
  BY DEF LapOver, UnderConstruction
<1>2. t \in Nat /\ ms \in Nat /\ MaxLeg \in Nat
  BY DEF ScheduleTypeOK, Sensible
<1>3. Hold \in Nat
  BY <1>1, <1>2, HoldType
<1>4. Loiters' = Loiters \cup {new}
  BY <1>1 DEF LapOver, Emit, Loiters
<1>5. /\ OffsetOf(kind, ms) \in Nat
      /\ OffsetOf(kind, ms) <= Hold
  BY <1>1, <1>2, <1>3, OffsetBounds
<1>6. PICK leg \in Legs : ms + leg > 1000 * Hold
  BY DEF LapOver
<1>7. leg \in 0 .. (1000 * MaxLeg)
  BY DEF Sensible
<1>8. CASE Hold <= MaxLeg
  BY <1>1, <1>2, <1>3, <1>4, <1>5, <1>8
<1>9. CASE Hold > MaxLeg
  <2>1. Hold - MaxLeg \in Nat /\ ms > 1000 * (Hold - MaxLeg)
    BY <1>2, <1>3, <1>6, <1>7, <1>9
  <2>2. OffsetOf(kind, ms) >= Hold - MaxLeg
    BY <1>2, <2>1, OffsetBounds
  <2> QED
    BY <1>1, <1>2, <1>3, <1>4, <1>5, <2>2
<1> QED
  BY <1>2, <1>3, <1>8, <1>9

LEMMA SameLoiters ==
  ASSUME ScheduleTypeOK, UnderConstruction, [ScheduleNext]_scheduleVars, ~ LapOver
  PROVE  Loiters' = Loiters
<1>1. CASE FileMovement
  <2>1. kind # "orbit"
    BY <1>1 DEF FileMovement, UnderConstruction, Movements
  <2> QED
    BY <1>1, <2>1 DEF FileMovement, Emit, Loiters
<1>2. CASE ~ FileMovement
  BY <1>2 DEF ScheduleNext, StartLoiter, SkipLoiter, LapNode, LoitersDone, StartMovement,
              BuildAnchor, MovementsDone, scheduleVars, Loiters
<1> QED
  BY <1>1, <1>2

LEMMA LoiterType ==
  ASSUME ScheduleTypeOK, OffsetsAscend, NEW f \in Loiters
  PROVE  f.dep \in Nat /\ LastOf(f.offsets) \in Nat
  BY LastType DEF ScheduleTypeOK, ScheduledFlight, OffsetsAscend, Loiters

LEMMA LoitersSpaced ==
  ASSUME Sensible
  PROVE  ScheduleSpec => []Spaced
<1>1. ScheduleInit => Spaced
  BY DEF ScheduleInit, Spaced, Loiters
<1>2. ScheduleTypeOK /\ UnderConstruction /\ OffsetsAscend /\ Spaced /\ [ScheduleNext]_scheduleVars
        => Spaced'
  <2> SUFFICES ASSUME ScheduleTypeOK, UnderConstruction, OffsetsAscend, Spaced,
                      [ScheduleNext]_scheduleVars
               PROVE  Spaced'
    OBVIOUS
  <2>1. t \in Nat /\ MinStep \in Nat /\ \A f \in Loiters : f.dep \in Nat
    BY StepTypes, LoiterType DEF ScheduleTypeOK
  <2>2. CASE LapOver
    <3> DEFINE new == [n |-> n, kind |-> kind, dep |-> t, offsets |-> offsets]
    <3>1. /\ Loiters' = Loiters \cup {new} /\ new.dep = t
          /\ LastOf(new.offsets) \in Nat /\ LastOf(new.offsets) <= Hold
      BY <2>2, NewLoiter
    <3>2. Hold <= OrbitDur /\ Hold \in Nat /\ OrbitDur \in Nat
      BY <2>1, <2>2, HoldType DEF LapOver, UnderConstruction, Sensible
    <3>3. t' \in Nat /\ t + MinStep <= t'
      BY <2>1, <2>2, StepTypes DEF LapOver, NextLoiter
    <3>4. \A f \in Loiters : f.dep + MinStep <= t
      BY <2>2 DEF LapOver, Spaced
    <3> HIDE DEF new
    <3> QED
      BY <2>1, <3>1, <3>2, <3>3, <3>4 DEF Spaced
  <2>3. CASE ~ LapOver
    <3>1. Loiters' = Loiters
      BY <2>3, SameLoiters
    <3>2. phase' \in {"loiters", "lap"} => /\ phase \in {"loiters", "lap"}
                                           /\ t' \in Nat /\ t <= t'
      <4>1. SkipLoiter => t' \in Nat /\ t <= t'
        BY <2>1, StepTypes DEF SkipLoiter, NextLoiter
      <4> QED
        BY <2>1, <2>3, <4>1 DEF ScheduleNext, StartLoiter, SkipLoiter, LapNode, LoitersDone,
             StartMovement, BuildAnchor, FileMovement, MovementsDone, scheduleVars
    <3> QED
      BY <2>1, <3>1, <3>2 DEF Spaced
  <2> QED
    BY <2>2, <2>3
<1> QED
  BY <1>1, <1>2, ConstructionCorrect, FlightsAscend, PTL DEF ScheduleSpec

(***************************************************************************)
(* Three loiters would depart within one hold, yet two steps apart: twice  *)
(* three quarters of a hold.                                               *)
(***************************************************************************)
THEOREM StationNeverCrowded ==
  ASSUME Sensible
  PROVE  ScheduleSpec => []NeverThreeLoiters
<1>1. ScheduleTypeOK /\ OffsetsAscend /\ Spaced => NeverThreeLoiters
  <2> SUFFICES ASSUME ScheduleTypeOK, OffsetsAscend, Spaced,
                      NEW f \in Loiters, NEW g \in Loiters, NEW h \in Loiters,
                      NEW x \in 0 .. Cycle, OnScope(f, x), OnScope(g, x), OnScope(h, x),
                      f # g, g # h, f # h
               PROVE  FALSE
    BY DEF NeverThreeLoiters
  <2>1. f.dep \in Nat /\ g.dep \in Nat /\ h.dep \in Nat /\ x \in Int
    BY LoiterType
  <2>2. /\ LastOf(f.offsets) \in Nat /\ LastOf(f.offsets) <= OrbitDur
        /\ LastOf(g.offsets) \in Nat /\ LastOf(g.offsets) <= OrbitDur
        /\ LastOf(h.offsets) \in Nat /\ LastOf(h.offsets) <= OrbitDur
    BY LoiterType DEF Spaced
  <2>3. /\ f.dep <= x /\ x <= f.dep + OrbitDur
        /\ g.dep <= x /\ x <= g.dep + OrbitDur
        /\ h.dep <= x /\ x <= h.dep + OrbitDur
    BY <2>1, <2>2 DEF OnScope, Sensible
  <2>4. /\ f.dep + MinStep <= g.dep \/ g.dep + MinStep <= f.dep
        /\ g.dep + MinStep <= h.dep \/ h.dep + MinStep <= g.dep
        /\ f.dep + MinStep <= h.dep \/ h.dep + MinStep <= f.dep
    BY DEF Spaced
  <2> QED
    BY <2>1, <2>3, <2>4, StepTypes DEF Sensible
<1> QED
  BY <1>1, ConstructionCorrect, FlightsAscend, LoitersSpaced, PTL

(***************************************************************************)
(* Until MinHold before the end of the cycle a loiter is there or has left *)
(* no more than one leg ago.                                               *)
(***************************************************************************)
THEOREM StationKept ==
  ASSUME Sensible
  PROVE  ScheduleSpec => []AmbientOrJustLeft
<1> DEFINE Kept == CoveredUntil(IF phase \in {"loiters", "lap"} THEN t ELSE Cycle)
<1>1. ScheduleInit => Kept
  BY DEF ScheduleInit, CoveredUntil
<1>2. ScheduleTypeOK /\ UnderConstruction /\ OffsetsAscend /\ Kept /\ [ScheduleNext]_scheduleVars
        => Kept'
  <2> SUFFICES ASSUME ScheduleTypeOK, UnderConstruction, OffsetsAscend, Kept,
                      [ScheduleNext]_scheduleVars,
                      NEW x \in 0 .. (Cycle - MinHold),
                      x < (IF phase' \in {"loiters", "lap"} THEN t' ELSE Cycle)
               PROVE  \E f \in Loiters' :
                        f.dep <= x /\ x <= f.dep + LastOf(f.offsets) + MaxLeg
    BY DEF CoveredUntil
  <2>1. t \in Nat /\ x \in Nat /\ MaxLeg \in Nat /\ Cycle \in Nat /\ MinHold \in Nat \ {0}
    BY DEF ScheduleTypeOK, Sensible
  <2>2. Loiters \subseteq Loiters'
    <3>1. CASE LapOver
      BY <3>1, NewLoiter
    <3>2. CASE ~ LapOver
      BY <3>2, SameLoiters
    <3> QED
      BY <3>1, <3>2
  <2>3. CASE x < (IF phase \in {"loiters", "lap"} THEN t ELSE Cycle)
    BY <2>2, <2>3 DEF CoveredUntil
  <2>4. CASE ~ (x < (IF phase \in {"loiters", "lap"} THEN t ELSE Cycle))
    <3>1. phase \in {"loiters", "lap"} /\ x >= t
      BY <2>1, <2>4
    <3>2. LapOver \/ SkipLoiter
      <4>1. ~ LoitersDone
        BY <2>1, <3>1 DEF LoitersDone
      <4> QED
        BY <2>1, <3>1, <4>1 DEF ScheduleNext, StartLoiter, LapNode, StartMovement,
             BuildAnchor, FileMovement, MovementsDone, scheduleVars
    <3>3. x < t' /\ phase' = "loiters"
      BY <3>2 DEF LapOver, SkipLoiter
    <3>4. CASE SkipLoiter
      <4>1. Cycle - t < MinHold
        BY <2>1, <3>4 DEF SkipLoiter, Hold, Sensible
      <4> QED
        BY <2>1, <3>1, <4>1
    <3>5. CASE LapOver
      <4> DEFINE new == [n |-> n, kind |-> kind, dep |-> t, offsets |-> offsets]
      <4>1. /\ new \in Loiters' /\ new.dep = t
            /\ LastOf(new.offsets) \in Nat /\ Hold <= LastOf(new.offsets) + MaxLeg
        BY <3>5, NewLoiter
      <4>2. x <= t + Hold
        <5>1. CASE OrbitDur <= Cycle - t
          <6>1. t' <= t + OrbitDur /\ t' \in Nat
            BY <2>1, <3>5, StepTypes DEF LapOver, NextLoiter, Sensible
          <6> QED
            BY <2>1, <3>3, <5>1, <6>1 DEF Hold, Sensible
        <5>2. CASE ~ (OrbitDur <= Cycle - t)
          BY <2>1, <5>2 DEF Hold
        <5> QED
          BY <5>1, <5>2
      <4>3. Hold \in Nat
        BY <2>1, <3>5, HoldType DEF LapOver, UnderConstruction
      <4> HIDE DEF new
      <4>4. new.dep <= x /\ x <= new.dep + LastOf(new.offsets) + MaxLeg
        BY <2>1, <3>1, <4>1, <4>2, <4>3
      <4> QED
        BY <4>1, <4>4
    <3> QED
      BY <3>2, <3>4, <3>5
  <2> QED
    BY <2>3, <2>4
<1>3. Kept => AmbientOrJustLeft
  BY DEF CoveredUntil, AmbientOrJustLeft, Sensible
<1> QED
  BY <1>1, <1>2, <1>3, ConstructionCorrect, FlightsAscend, PTL DEF ScheduleSpec

-------------------------------------------------------------------------------
(***************************************************************************)
(* The fuel farm's timeline.                                               *)
(***************************************************************************)

(***************************************************************************)
(* What a sortie is made of, and where its kick-off may lie.               *)
(***************************************************************************)
RoundRobin(s) ==
  s.truck = s.n % 6 /\ s.tank = s.n % 3 /\ s.rack = (s.n % 2) + 1

SoundUnder(s, d) ==
  /\ s.n \in 0 .. d - 1
  /\ RoundRobin(s)
  /\ s.slot \in Nat /\ s.t0 \in Nat
  /\ s.slot - 113 <= s.t0 /\ s.t0 <= s.slot + 112
  /\ s.t0 < Hours * 3600 - 1
  /\ s.arrive \in 30 .. 90 /\ s.position \in 30 .. 60
  /\ s.load \in Nat \ {0}
  /\ s.taxi \in 180 .. 300 /\ s.dispense \in 300 .. 600

SoundSortie(s) == SoundUnder(s, dealt)

(***************************************************************************)
(* Slots are 112 seconds apart or more, within an hour and across its end. *)
(***************************************************************************)
Slots ==
  /\ hour \in 0 .. Hours /\ slot \in Nat /\ slot < Rate(hour) /\ dealt \in Nat
  /\ \A s \in sorties : s.slot + 112 * (dealt - s.n) <= SlotTime
  /\ \A r, s \in sorties : r.n < s.n => r.slot + 112 * (s.n - r.n) <= s.slot

Dealt == Slots /\ \A s \in sorties : SoundSortie(s)

(***************************************************************************)
(* One turn of the loops: how far the next slot is, and where the jitter   *)
(* may put a kick-off.                                                     *)
(***************************************************************************)
LEMMA NextSlot ==
  ASSUME Plausible, Slots, Deal
  PROVE  /\ hour' \in 0 .. Hours /\ slot' \in Nat /\ slot' < Rate(hour') /\ dealt' = dealt + 1
         /\ SlotTime \in Nat /\ SlotTime' \in Nat
         /\ SlotTime + 112 <= SlotTime'
         /\ SlotTime + 112 <= Hours * 3600
<1>1. CASE hour \in Surge
  <2>1. Rate(hour) = 32 /\ Spacing(hour) = 112
    BY <1>1 DEF Rate, Spacing
  <2>2. CASE slot + 1 < Rate(hour) /\ slot' = slot + 1 /\ hour' = hour
    BY <2>1, <2>2 DEF Slots, Deal, Plausible, SlotTime, Spacing, Rate
  <2>3. CASE slot + 1 = Rate(hour) /\ slot' = 0 /\ hour' = hour + 1
    <3>1. Spacing(hour') \in Nat /\ Rate(hour') \in Nat \ {0}
      BY DEF Rate, Spacing
    <3>2. SlotTime' = hour' * 3600 + slot' * Spacing(hour')
      BY DEF SlotTime
    <3>3. SlotTime' = (hour + 1) * 3600
      BY <2>3, <3>1, <3>2 DEF Slots
    <3> QED
      BY <2>1, <2>3, <3>1, <3>3 DEF Slots, Deal, Plausible, SlotTime
  <2> QED
    BY <2>2, <2>3 DEF Deal
<1>2. CASE hour \notin Surge
  <2>1. Rate(hour) = 8 /\ Spacing(hour) = 450
    BY <1>2 DEF Rate, Spacing
  <2>2. CASE slot + 1 < Rate(hour) /\ slot' = slot + 1 /\ hour' = hour
    BY <2>1, <2>2 DEF Slots, Deal, Plausible, SlotTime, Spacing, Rate
  <2>3. CASE slot + 1 = Rate(hour) /\ slot' = 0 /\ hour' = hour + 1
    <3>1. Spacing(hour') \in Nat /\ Rate(hour') \in Nat \ {0}
      BY DEF Rate, Spacing
    <3>2. SlotTime' = hour' * 3600 + slot' * Spacing(hour')
      BY DEF SlotTime
    <3>3. SlotTime' = (hour + 1) * 3600
      BY <2>3, <3>1, <3>2 DEF Slots
    <3> QED
      BY <2>1, <2>3, <3>1, <3>3 DEF Slots, Deal, Plausible, SlotTime
  <2> QED
    BY <2>2, <2>3 DEF Deal
<1> QED
  BY <1>1, <1>2

LEMMA KickOff ==
  ASSUME Plausible, Slots, hour < Hours, NEW j \in Jitter(hour)
  PROVE  /\ Pinned(SlotTime + j) \in Nat
         /\ SlotTime - 113 <= Pinned(SlotTime + j)
         /\ Pinned(SlotTime + j) <= SlotTime + 112
         /\ Pinned(SlotTime + j) < Hours * 3600 - 1
<1>1. CASE hour \in Surge
  <2>1. Rate(hour) = 32 /\ Spacing(hour) = 112
    BY <1>1 DEF Rate, Spacing
  <2>2. j \in -28 .. 28
    BY <2>1 DEF Jitter
  <2>3. SlotTime \in Nat /\ SlotTime <= Hours * 3600 - 128
    BY <2>1 DEF Slots, SlotTime, Plausible
  <2> QED
    BY <2>2, <2>3 DEF Pinned, Plausible
<1>2. CASE hour \notin Surge
  <2>1. Rate(hour) = 8 /\ Spacing(hour) = 450
    BY <1>2 DEF Rate, Spacing
  <2>2. j \in -113 .. 112
    BY <2>1 DEF Jitter
  <2>3. SlotTime \in Nat /\ SlotTime <= Hours * 3600 - 450
    BY <2>1 DEF Slots, SlotTime, Plausible
  <2> QED
    BY <2>2, <2>3 DEF Pinned, Plausible
<1> QED
  BY <1>1, <1>2

LEMMA DealsAreSound ==
  ASSUME Plausible PROVE TimelineSpec => []Dealt
<1>1. TimelineInit => Dealt
  BY DEF TimelineInit, Dealt, Slots, Plausible, Rate
<1>2. Dealt /\ [Deal]_timeline => Dealt'
  <2> SUFFICES ASSUME Dealt, Deal PROVE Dealt'
    BY DEF Dealt, Slots, SoundSortie, SoundUnder, SlotTime, timeline
  <2> USE DEF Dealt
  <2>1. /\ hour' \in 0 .. Hours /\ slot' \in Nat /\ slot' < Rate(hour') /\ dealt' = dealt + 1
        /\ SlotTime \in Nat /\ SlotTime' \in Nat
        /\ SlotTime + 112 <= SlotTime'
    BY NextSlot
  <2>2. PICK j \in Jitter(hour), preset \in Presets :
          \E load \in LoadSeconds(preset),
             arrive \in 30 .. 90, position \in 30 .. 60,
             taxi \in 180 .. 300, dispense \in 300 .. 600 :
          sorties' = sorties \cup
            {NewSortie(Pinned(SlotTime + j), preset, load, arrive, position, taxi, dispense)}
    BY DEF Deal
  <2>9. PICK load \in LoadSeconds(preset),
             arrive \in 30 .. 90, position \in 30 .. 60,
             taxi \in 180 .. 300, dispense \in 300 .. 600 :
          sorties' = sorties \cup
            {NewSortie(Pinned(SlotTime + j), preset, load, arrive, position, taxi, dispense)}
    BY <2>2
  <2> DEFINE new == NewSortie(Pinned(SlotTime + j), preset, load, arrive, position, taxi, dispense)
  <2>3. new.n = dealt /\ new.slot = SlotTime
    BY DEF NewSortie
  <2>4. SoundUnder(new, dealt')
    <3>1. /\ Pinned(SlotTime + j) \in Nat
          /\ SlotTime - 113 <= Pinned(SlotTime + j)
          /\ Pinned(SlotTime + j) <= SlotTime + 112
          /\ Pinned(SlotTime + j) < Hours * 3600 - 1
      BY KickOff DEF Deal
    <3>2. load \in Nat \ {0}
      BY DEF Plausible, LoadSeconds
    <3>3. dealt \in Nat
      BY DEF Slots
    <3>4. /\ new.n = dealt /\ new.slot = SlotTime /\ new.t0 = Pinned(SlotTime + j)
          /\ new.truck = dealt % 6 /\ new.tank = dealt % 3 /\ new.rack = (dealt % 2) + 1
          /\ new.arrive = arrive /\ new.position = position /\ new.load = load
          /\ new.taxi = taxi /\ new.dispense = dispense
      BY DEF NewSortie, NTrucks, NTanks
    <3> HIDE DEF new
    <3> QED
      BY <2>1, <3>1, <3>2, <3>3, <3>4 DEF SoundUnder, RoundRobin
  <2>5. \A s \in sorties : SoundUnder(s, dealt')
    BY <2>1 DEF Slots, SoundSortie, SoundUnder
  <2>6. \A s \in sorties' : s = new \/ s \in sorties
    BY <2>9
  <2>7. \A s \in sorties' : s.slot + 112 * (dealt' - s.n) <= SlotTime'
    BY <2>1, <2>3, <2>6 DEF Slots, SoundSortie, SoundUnder
  <2>8. \A r, s \in sorties' : r.n < s.n => r.slot + 112 * (s.n - r.n) <= s.slot
    BY <2>3, <2>6 DEF Slots, SoundSortie, SoundUnder
  <2> HIDE DEF new
  <2>10. \A s \in sorties' : SoundUnder(s, dealt')
    BY <2>4, <2>5, <2>6
  <2>11. Slots'
    BY <2>1, <2>7, <2>8 DEF Slots
  <2> QED
    BY <2>10, <2>11 DEF SoundSortie
<1> QED
  BY <1>1, <1>2, PTL DEF TimelineSpec

(***************************************************************************)
(* A sortie's events keep their order through the sort.                    *)
(***************************************************************************)
THEOREM TimelineKeepsSortiesInOrder ==
  ASSUME Plausible PROVE TimelineSpec => []SortiesRunInOrder
<1>1. Dealt => SortiesRunInOrder
  <2> SUFFICES ASSUME Dealt, NEW s \in sorties PROVE RunsInOrder(s)
    BY DEF SortiesRunInOrder
  <2>1. /\ s.t0 \in Nat /\ s.arrive \in 30 .. 90 /\ s.position \in 30 .. 60
        /\ s.load \in Nat \ {0} /\ s.taxi \in 180 .. 300 /\ s.dispense \in 300 .. 600
    BY DEF Dealt, SoundSortie, SoundUnder
  <2>2. /\ At(s, "order_created") \in Int
        /\ At(s, "truck_arrival") = At(s, "order_created") + s.arrive
    BY <2>1 DEF At
  <2>3. At(s, "truck_arrival") \in Int /\ At(s, "load_start") = At(s, "truck_arrival") + s.position
    BY <2>1 DEF At, LoadStartAt
  <2>4. At(s, "load_start") \in Int /\ At(s, "load_end") = At(s, "load_start") + s.load
    BY <2>1 DEF At, LoadStartAt
  <2>5. At(s, "load_end") \in Int /\ At(s, "delivery_start") = At(s, "load_end") + s.taxi
    BY <2>1, <2>4 DEF At, DeliveryStartAt
  <2>6. /\ At(s, "delivery_start") \in Int
        /\ At(s, "delivery_end") = At(s, "delivery_start") + s.dispense
    BY <2>1, <2>5 DEF At
  <2>7. /\ At(s, "order_created") < At(s, "truck_arrival")
        /\ At(s, "truck_arrival") < At(s, "load_start")
        /\ At(s, "load_start") < At(s, "load_end")
    BY <2>1, <2>2, <2>3, <2>4
  <2>8. /\ At(s, "load_end") < At(s, "delivery_start")
        /\ At(s, "delivery_start") < At(s, "delivery_end")
    BY <2>1, <2>5, <2>6
  <2> QED
    BY <2>7, <2>8 DEF RunsInOrder, Before
<1> QED
  BY <1>1, DealsAreSound, PTL

(***************************************************************************)
(* It would not for a preset of less than ten gallons: the load, of zero   *)
(* seconds, would end before it started.                                   *)
(***************************************************************************)
THEOREM TinyLoadsWouldEndFirst ==
  ASSUME NEW s, s.t0 \in Nat, s.arrive \in Nat, s.position \in Nat,
         s.preset \in 0 .. 9, s.load \in LoadSeconds(s.preset)
  PROVE  Before(s, "load_end", s, "load_start")
<1>1. s.load = 0
  BY DEF LoadSeconds
<1>2. At(s, "load_end") = At(s, "load_start")
  BY <1>1 DEF At, LoadStartAt
<1> QED
  BY <1>2 DEF Before, NameOrder

(***************************************************************************)
(* Trucks, tanks and racks go together: what FuelFarm assumes of RackOf.   *)
(***************************************************************************)
THEOREM TrucksAreTiedToRacks ==
  ASSUME Plausible PROVE TimelineSpec => []TrucksKeepTheirRack
<1>1. Dealt => TrucksKeepTheirRack
  <2> SUFFICES ASSUME Dealt, NEW r \in sorties, NEW s \in sorties, r.truck = s.truck
               PROVE  r.rack = s.rack /\ r.tank = s.tank
    BY DEF TrucksKeepTheirRack
  <2>1. SoundUnder(r, dealt) /\ SoundUnder(s, dealt) /\ dealt \in Nat
    BY DEF Dealt, Slots, SoundSortie
  <2>2. r.n \in Int /\ s.n \in Int /\ r.n % 6 = s.n % 6
    <3>1. r.n \in Int /\ s.n \in Int
      BY <2>1 DEF SoundUnder
    <3>2. RoundRobin(r) /\ RoundRobin(s)
      BY <2>1 DEF SoundUnder
    <3>3. r.truck = r.n % 6
      BY <3>2, Zenon DEF RoundRobin
    <3>4. s.truck = s.n % 6
      BY <3>2, Zenon DEF RoundRobin
    <3> QED
      BY <3>1, <3>3, <3>4, Zenon
  <2>3. r.n % 2 = s.n % 2 /\ r.n % 3 = s.n % 3
    BY <2>2
  <2> QED
    BY <2>1, <2>3 DEF SoundUnder, RoundRobin
<1> QED
  BY <1>1, DealsAreSound, PTL

(***************************************************************************)
(* Two sorties of a truck are six slots or more apart, which no jitter     *)
(* makes up for.                                                           *)
(***************************************************************************)
THEOREM TurnsAreTaken ==
  ASSUME Plausible PROVE TimelineSpec => []TrucksTakeTurns
<1>1. Dealt => TrucksTakeTurns
  <2> SUFFICES ASSUME Dealt, NEW r \in sorties, NEW s \in sorties,
                      r.truck = s.truck, r.n < s.n
               PROVE  r.t0 < s.t0
    BY DEF TrucksTakeTurns
  <2>1. SoundUnder(r, dealt) /\ SoundUnder(s, dealt) /\ dealt \in Nat
    BY DEF Dealt, Slots, SoundSortie
  <2>2. r.n \in Int /\ s.n \in Int /\ r.n % 6 = s.n % 6
    <3>1. r.n \in Int /\ s.n \in Int
      BY <2>1 DEF SoundUnder
    <3>2. RoundRobin(r) /\ RoundRobin(s)
      BY <2>1 DEF SoundUnder
    <3>3. r.truck = r.n % 6
      BY <3>2, Zenon DEF RoundRobin
    <3>4. s.truck = s.n % 6
      BY <3>2, Zenon DEF RoundRobin
    <3> QED
      BY <3>1, <3>3, <3>4, Zenon
  <2>3. r.n + 6 <= s.n
    BY <2>2
  <2>4. r.slot + 112 * (s.n - r.n) <= s.slot
    BY DEF Dealt, Slots
  <2> QED
    BY <2>1, <2>2, <2>3, <2>4 DEF SoundUnder
<1> QED
  BY <1>1, DealsAreSound, PTL

(***************************************************************************)
(* The upper clamp of a kick-off is never used.                            *)
(***************************************************************************)
THEOREM NoSortieAtTheEnd ==
  ASSUME Plausible PROVE TimelineSpec => []NeverPinnedToTheEnd
<1>1. Dealt => NeverPinnedToTheEnd
  BY DEF Dealt, SoundSortie, SoundUnder, NeverPinnedToTheEnd
<1> QED
  BY <1>1, DealsAreSound, PTL

-------------------------------------------------------------------------------
(***************************************************************************)
(* The feed, for any number of clients that come and go as they like.      *)
(***************************************************************************)

(***************************************************************************)
(* run has a frame at hand except between flights, and holds the lock of   *)
(* the frame's port in a send.                                             *)
(***************************************************************************)
HoldsItsLock ==
  /\ pc = "flights" <=> frames = << >>
  /\ pc \in {"send", "drop"} => lock[Head(frames)] = "run"

(***************************************************************************)
(* A port's list has each of its clients once at most, and none that is    *)
(* still to be appended or has no connection.                              *)
(***************************************************************************)
ListedOnce ==
  \A p \in Ports :
    /\ IsInjective(socks[p])
    /\ \A c \in Range(socks[p]) :
         PortOf[c] = p /\ c \notin backlog[p] /\ conn[c] \in {"open", "gone"}
    /\ \A c \in backlog[p] : PortOf[c] = p /\ conn[c] \in {"open", "gone"}

(***************************************************************************)
(* The clients before the iterator have been served ...                    *)
(***************************************************************************)
ServedSoFar ==
  pc = "send" => next >= 1 /\ \A i \in 1 .. Len(List) : i < next => List[i] \in served

(***************************************************************************)
(* ... and the dead are among them, each noted once.                       *)
(***************************************************************************)
NotedSoFar ==
  /\ dead # << >> => pc \in {"send", "drop"}
  /\ IsInjective(dead)
  /\ pc = "send" => \A c \in Range(dead) : \E i \in 1 .. Len(List) : i < next /\ List[i] = c

FeedInv ==
  /\ TypeOK
  /\ HoldsItsLock
  /\ ListedOnce
  /\ ServedSoFar
  /\ NotedSoFar
  /\ NobodyIsSkipped
  /\ DeadAreListed

(***************************************************************************)
(* What a sequence without repetitions keeps when an element is added at   *)
(* its end, taken out, or taken off its head.                              *)
(***************************************************************************)
LEMMA AppendOnce ==
  ASSUME NEW S, NEW seq \in Seq(S), NEW e \in S
  PROVE  /\ Append(seq, e) \in Seq(S)
         /\ Range(Append(seq, e)) = Range(seq) \cup {e}
         /\ IsInjective(seq) /\ e \notin Range(seq) => IsInjective(Append(seq, e))
<1> DEFINE longer == Append(seq, e)
<1>1. /\ longer \in Seq(S) /\ Len(longer) = Len(seq) + 1 /\ Len(seq) \in Nat
      /\ \A i \in 1 .. Len(seq) : longer[i] = seq[i]
      /\ longer[Len(seq) + 1] = e
  BY AppendProperties, LenProperties
<1> HIDE DEF longer
<1>2. DOMAIN longer = 1 .. Len(seq) + 1 /\ DOMAIN seq = 1 .. Len(seq)
  BY <1>1, LenProperties
<1>3. Range(longer) = Range(seq) \cup {e}
  BY <1>1, <1>2 DEF Range
<1>4. ASSUME IsInjective(seq), e \notin Range(seq) PROVE IsInjective(longer)
  BY <1>1, <1>2, <1>4 DEF IsInjective, Range
<1> QED
  BY <1>1, <1>3, <1>4 DEF longer

LEMMA RemoveOnce ==
  ASSUME NEW S, NEW seq \in Seq(S), NEW i \in 1 .. Len(seq)
  PROVE  /\ RemoveAt(seq, i) \in Seq(S)
         /\ Range(RemoveAt(seq, i)) \subseteq Range(seq)
         /\ Range(seq) \subseteq Range(RemoveAt(seq, i)) \cup {seq[i]}
         /\ IsInjective(seq)
              => IsInjective(RemoveAt(seq, i)) /\ seq[i] \notin Range(RemoveAt(seq, i))
<1> DEFINE before == SubSeq(seq, 1, i - 1)
           after == SubSeq(seq, i + 1, Len(seq))
           kept == before \o after
<1>0. Len(seq) \in Nat /\ \A j \in 1 .. Len(seq) : seq[j] \in S
  BY LenProperties, ElementOfSeq
<1>1. before \in Seq(S) /\ Len(before) = i - 1 /\ \A j \in 1 .. i - 1 : before[j] = seq[j]
  <2>1. \A j \in 1 .. i - 1 : seq[j] \in S
    BY <1>0
  <2>2. /\ before \in Seq(S) /\ Len(before) = IF 1 <= i - 1 THEN i - 1 - 1 + 1 ELSE 0
        /\ \A j \in 1 .. i - 1 - 1 + 1 : before[j] = seq[1 + j - 1]
    BY <2>1, SubSeqProperties, i - 1 \in Int, 1 \in Int
  <2> QED
    BY <1>0, <2>2
<1>2. /\ after \in Seq(S) /\ Len(after) = Len(seq) - i
      /\ \A j \in 1 .. Len(seq) - i : after[j] = seq[i + j]
  <2>1. \A j \in i + 1 .. Len(seq) : seq[j] \in S
    BY <1>0
  <2>2. /\ after \in Seq(S)
        /\ Len(after) = IF i + 1 <= Len(seq) THEN Len(seq) - (i + 1) + 1 ELSE 0
        /\ \A j \in 1 .. Len(seq) - (i + 1) + 1 : after[j] = seq[(i + 1) + j - 1]
    BY <1>0, <2>1, SubSeqProperties, i + 1 \in Int, Len(seq) \in Int
  <2> QED
    BY <1>0, <2>2
<1> HIDE DEF before, after
<1>3. /\ kept \in Seq(S) /\ Len(kept) = Len(seq) - 1
      /\ \A j \in 1 .. Len(seq) - 1 : kept[j] = IF j < i THEN seq[j] ELSE seq[j + 1]
  <2>1. /\ kept \in Seq(S) /\ Len(kept) = Len(before) + Len(after)
        /\ \A j \in 1 .. Len(before) + Len(after) :
             kept[j] = IF j <= Len(before) THEN before[j] ELSE after[j - Len(before)]
    BY <1>1, <1>2, ConcatProperties
  <2>2. Len(before) + Len(after) = Len(seq) - 1
    BY <1>0, <1>1, <1>2
  <2> HIDE DEF kept
  <2>3. ASSUME NEW j \in 1 .. Len(seq) - 1
        PROVE  kept[j] = IF j < i THEN seq[j] ELSE seq[j + 1]
    <3>1. CASE j < i
      BY <1>0, <1>1, <2>1, <2>2, <3>1
    <3>2. CASE j >= i
      <4>1. kept[j] = after[j - (i - 1)] /\ j - (i - 1) \in 1 .. Len(seq) - i
        BY <1>0, <1>1, <2>1, <2>2, <3>2
      <4>2. i + (j - (i - 1)) = j + 1
        OBVIOUS
      <4> QED
        BY <1>2, <3>2, <4>1, <4>2
    <3> QED
      BY <3>1, <3>2
  <2> QED
    BY <2>1, <2>2, <2>3
<1>4. RemoveAt(seq, i) = kept
  BY DEF RemoveAt, before, after
<1> HIDE DEF kept
<1>5. DOMAIN kept = 1 .. Len(seq) - 1 /\ DOMAIN seq = 1 .. Len(seq)
  BY <1>3, LenProperties
<1>6. Range(kept) \subseteq Range(seq)
  <2> SUFFICES ASSUME NEW j \in 1 .. Len(seq) - 1 PROVE kept[j] \in Range(seq)
    BY <1>5 DEF Range
  <2>1. \E k \in 1 .. Len(seq) : kept[j] = seq[k]
    BY <1>0, <1>3
  <2> QED
    BY <1>5, <2>1 DEF Range
<1>7. Range(seq) \subseteq Range(kept) \cup {seq[i]}
  <2> SUFFICES ASSUME NEW j \in 1 .. Len(seq), j # i PROVE seq[j] \in Range(kept)
    BY <1>5 DEF Range
  <2>1. CASE j < i
    BY <1>0, <1>3, <1>5, <2>1 DEF Range
  <2>2. CASE j > i
    <3>1. j - 1 \in 1 .. Len(seq) - 1 /\ kept[j - 1] = seq[j]
      BY <1>0, <1>3, <2>2
    <3> QED
      BY <1>5, <3>1 DEF Range
  <2> QED
    BY <2>1, <2>2
<1>8. ASSUME IsInjective(seq) PROVE IsInjective(kept) /\ seq[i] \notin Range(kept)
  <2>1. \A j, k \in 1 .. Len(seq) : seq[j] = seq[k] => j = k
    BY <1>5, <1>8 DEF IsInjective
  <2>2. \A j \in 1 .. Len(seq) - 1 : kept[j] # seq[i]
    BY <1>0, <1>3, <2>1
  <2>3. \A j, k \in 1 .. Len(seq) - 1 : kept[j] = kept[k] => j = k
    <3>1. SUFFICES ASSUME NEW j \in 1 .. Len(seq) - 1, NEW k \in 1 .. Len(seq) - 1, kept[j] = kept[k]
                   PROVE  j = k
      OBVIOUS
    <3> QED
      BY <1>0, <1>3, <2>1, <3>1
  <2> QED
    BY <1>5, <2>2, <2>3 DEF IsInjective, Range
<1> QED
  BY <1>3, <1>4, <1>6, <1>7, <1>8

LEMMA TailOnce ==
  ASSUME NEW S, NEW seq \in Seq(S), seq # << >>
  PROVE  /\ Head(seq) \in S /\ Head(seq) \in Range(seq)
         /\ Tail(seq) \in Seq(S) /\ Range(Tail(seq)) \subseteq Range(seq)
         /\ IsInjective(seq) => IsInjective(Tail(seq)) /\ Head(seq) \notin Range(Tail(seq))
<1> DEFINE rest == Tail(seq)
<1>1. /\ rest \in Seq(S) /\ Len(rest) = Len(seq) - 1 /\ Head(seq) \in S /\ Head(seq) = seq[1]
      /\ \A i \in 1 .. Len(rest) : rest[i] = seq[i + 1]
  BY HeadTailProperties
<1>2. Len(seq) \in Nat \ {0} /\ DOMAIN rest = 1 .. Len(seq) - 1 /\ DOMAIN seq = 1 .. Len(seq)
  BY <1>1, EmptySeq, LenProperties
<1> HIDE DEF rest
<1>3. Head(seq) \in Range(seq) /\ Range(rest) \subseteq Range(seq)
  BY <1>1, <1>2 DEF Range
<1>4. ASSUME IsInjective(seq) PROVE IsInjective(rest) /\ Head(seq) \notin Range(rest)
  <2>1. \A j, k \in 1 .. Len(seq) : seq[j] = seq[k] => j = k
    BY <1>2, <1>4 DEF IsInjective
  <2>2. \A j \in 1 .. Len(seq) - 1 : rest[j] # seq[1]
    BY <1>1, <1>2, <2>1
  <2>3. \A j, k \in 1 .. Len(seq) - 1 : rest[j] = rest[k] => j = k
    BY <1>1, <1>2, <2>1
  <2> QED
    BY <1>1, <1>2, <2>2, <2>3 DEF IsInjective, Range
<1> QED
  BY <1>1, <1>3, <1>4 DEF rest

LEMMA FramesOfAFlight == FlightFrames \in Seq(Ports) /\ FlightFrames # << >>
<1> DEFINE ident == IF tick = 0 THEN <<"beast", "sbs">> ELSE << >>
           rest == <<"beast", "beast", "beast", "sbs", "sbs">>
<1>1. ident \in Seq(Ports)
  <2>1. <<"beast", "sbs">> \in Seq(Ports)
    BY "beast" \in Ports, "sbs" \in Ports DEF Ports
  <2> QED
    BY <2>1, EmptySeq
<1>4. rest \in Seq(Ports) /\ Len(rest) = 5
  <2>1. "beast" \in Ports /\ "sbs" \in Ports
    BY DEF Ports
  <2> QED
    BY <2>1
<1>2. FlightFrames = ident \o rest
  BY DEF FlightFrames
<1> HIDE DEF ident, rest
<1>3. FlightFrames \in Seq(Ports) /\ Len(FlightFrames) = Len(ident) + 5 /\ Len(ident) \in Nat
  <2>1. ident \o rest \in Seq(Ports) /\ Len(ident \o rest) = Len(ident) + Len(rest)
    BY <1>1, <1>4, ConcatProperties
  <2>2. Len(ident) \in Nat
    BY <1>1, LenProperties
  <2> QED
    BY <1>4, <1>2, <2>1, <2>2
<1> QED
  BY <1>3, EmptySeq

(***************************************************************************)
(* With a frame at hand there is a port, and its list.                     *)
(***************************************************************************)
LEMMA AtHand ==
  ASSUME TypeOK, HoldsItsLock, pc # "flights"
  PROVE  /\ frames # << >> /\ Head(frames) \in Ports /\ Tail(frames) \in Seq(Ports)
         /\ List \in Seq(Clients) /\ Len(List) \in Nat /\ DOMAIN List = 1 .. Len(List)
         /\ Len(frames) = 1 <=> Tail(frames) = << >>
<1>1. frames # << >> /\ frames \in Seq(Ports)
  BY DEF TypeOK, HoldsItsLock
<1>2. Head(frames) \in Ports /\ Tail(frames) \in Seq(Ports) /\ Len(Tail(frames)) = Len(frames) - 1
  BY <1>1, HeadTailProperties
<1>3. Len(frames) = 1 <=> Tail(frames) = << >>
  <2>1. Len(frames) \in Nat \ {0}
    BY <1>1, EmptySeq
  <2>2. Tail(frames) = << >> <=> Len(Tail(frames)) = 0
    BY <1>2, EmptySeq
  <2> QED
    BY <1>2, <2>1, <2>2
<1>4. List \in Seq(Clients)
  BY <1>2 DEF TypeOK, List
<1> QED
  BY <1>1, <1>2, <1>3, <1>4, LenProperties

(***************************************************************************)
(* What run relies on: its own variables, and in a send its lock and list. *)
(***************************************************************************)
RunPart == HoldsItsLock /\ ServedSoFar /\ NotedSoFar /\ NobodyIsSkipped /\ DeadAreListed

LEMMA RunUndisturbed ==
  ASSUME RunPart, UNCHANGED run,
         pc \in {"send", "drop"} =>
           socks'[Head(frames)] = socks[Head(frames)] /\ lock'[Head(frames)] = lock[Head(frames)]
  PROVE  RunPart'
  BY DEF RunPart, run, HoldsItsLock, ServedSoFar, NotedSoFar, NobodyIsSkipped, DeadAreListed, List

(***************************************************************************)
(* The steps of the accept threads and the clients.                        *)
(***************************************************************************)
LEMMA OthersStep ==
  ASSUME FeedInv,
         \/ \E p \in Ports : AcceptStep(p) \/ AcceptFails(p)
         \/ \E c \in Clients : Connect(c) \/ Read(c) \/ GoAway(c)
  PROVE  FeedInv'
<1>0. TypeOK /\ ListedOnce /\ RunPart
  BY DEF FeedInv, RunPart
<1>00. pc \in {"send", "drop"} => Head(frames) \in Ports /\ lock[Head(frames)] = "run"
  BY <1>0, AtHand DEF RunPart, HoldsItsLock
<1>1. ASSUME NEW c \in Clients, Accept(c) PROVE FeedInv'
  <2>1. TypeOK'
    BY <1>0, <1>1, ClientAssumption DEF Accept, TypeOK, run
  <2>2. ListedOnce'
    <3>1. \A q \in Ports : c \notin Range(socks[q])
      BY <1>0, <1>1 DEF Accept, ListedOnce
    <3>2. \A d \in Clients : conn'[d] = IF d = c THEN "open" ELSE conn[d]
      BY <1>0, <1>1 DEF Accept, TypeOK
    <3>3. \A q \in Ports : backlog'[q] = IF q = PortOf[c] THEN {c} ELSE backlog[q]
      BY <1>0, <1>1 DEF Accept, TypeOK
    <3>4. \A q \in Ports : Range(socks[q]) \subseteq Clients /\ backlog[q] \subseteq Clients
      BY <1>0, RangeOfSeq DEF TypeOK
    <3>5. socks' = socks
      BY <1>1 DEF Accept
    <3> QED
      BY <1>0, <3>1, <3>2, <3>3, <3>4, <3>5 DEF ListedOnce
  <2>3. RunPart'
    <3>1. UNCHANGED run /\ socks' = socks /\ lock' = lock
      BY <1>1 DEF Accept
    <3> QED
      BY <1>0, <3>1, RunUndisturbed
  <2> QED
    BY <2>1, <2>2, <2>3 DEF FeedInv, RunPart
<1>2. ASSUME NEW p \in Ports, AcceptLock(p) PROVE FeedInv'
  <2>1. TypeOK'
    BY <1>0, <1>2 DEF AcceptLock, TypeOK, run, client
  <2>2. ListedOnce'
    BY <1>0, <1>2 DEF AcceptLock, TypeOK, ListedOnce, client
  <2>3. RunPart'
    <3>1. /\ UNCHANGED run
          /\ \A q \in Ports : lock[q] = "run" => socks'[q] = socks[q] /\ lock'[q] = lock[q]
      BY <1>0, <1>2 DEF AcceptLock, TypeOK
    <3> QED
      BY <1>0, <1>00, <3>1, RunUndisturbed
  <2> QED
    BY <2>1, <2>2, <2>3 DEF FeedInv, RunPart
<1>3. ASSUME NEW p \in Ports, AcceptAppend(p) PROVE FeedInv'
  <2>0. PICK c \in backlog[p] : socks' = [socks EXCEPT ![p] = Append(@, c)]
    BY <1>3 DEF AcceptAppend
  <2>1. c \in Clients /\ socks[p] \in Seq(Clients)
    BY <1>0, <2>0 DEF TypeOK
  <2>2. /\ Append(socks[p], c) \in Seq(Clients)
        /\ Range(Append(socks[p], c)) = Range(socks[p]) \cup {c}
        /\ IsInjective(socks[p]) /\ c \notin Range(socks[p]) => IsInjective(Append(socks[p], c))
    BY <2>1, AppendOnce
  <2>3. TypeOK'
    BY <1>0, <1>3, <2>0, <2>2 DEF AcceptAppend, TypeOK, run, client
  <2>4. ListedOnce'
    <3>1. ASSUME NEW q \in Ports, q # p PROVE socks'[q] = socks[q] /\ backlog'[q] = backlog[q]
      BY <1>0, <1>3, <2>0, <3>1 DEF AcceptAppend, TypeOK
    <3>2. socks'[p] = Append(socks[p], c) /\ backlog'[p] = {} /\ conn' = conn
      BY <1>0, <1>3, <2>0 DEF AcceptAppend, TypeOK, client
    <3> QED
      BY <1>0, <2>0, <2>2, <3>1, <3>2 DEF ListedOnce
  <2>5. RunPart'
    <3>1. /\ UNCHANGED run
          /\ \A q \in Ports : lock[q] = "run" => socks'[q] = socks[q] /\ lock'[q] = lock[q]
      BY <1>0, <2>0, <1>3 DEF AcceptAppend, TypeOK
    <3> QED
      BY <1>0, <1>00, <3>1, RunUndisturbed
  <2> QED
    BY <2>3, <2>4, <2>5 DEF FeedInv, RunPart
<1>4. ASSUME NEW c \in Clients, Connect(c) PROVE FeedInv'
  <2>1. TypeOK'
    BY <1>0, <1>4, ClientAssumption DEF Connect, TypeOK, run, server
  <2>2. ListedOnce'
    BY <1>0, <1>4 DEF Connect, TypeOK, ListedOnce, server
  <2>3. RunPart'
    <3>1. UNCHANGED run /\ socks' = socks /\ lock' = lock
      BY <1>4 DEF Connect, server
    <3> QED
      BY <1>0, <3>1, RunUndisturbed
  <2> QED
    BY <2>1, <2>2, <2>3 DEF FeedInv, RunPart
<1>5. ASSUME NEW c \in Clients, Read(c) PROVE FeedInv'
  <2>1. TypeOK'
    BY <1>0, <1>5, ClientAssumption DEF Read, TypeOK, run, server
  <2>2. ListedOnce'
    BY <1>0, <1>5 DEF Read, TypeOK, ListedOnce, server
  <2>3. RunPart'
    <3>1. UNCHANGED run /\ socks' = socks /\ lock' = lock
      BY <1>5 DEF Read, server
    <3> QED
      BY <1>0, <3>1, RunUndisturbed
  <2> QED
    BY <2>1, <2>2, <2>3 DEF FeedInv, RunPart
<1>6. ASSUME NEW c \in Clients, GoAway(c) PROVE FeedInv'
  <2>1. TypeOK'
    BY <1>0, <1>6, ClientAssumption DEF GoAway, TypeOK, run, server
  <2>2. ListedOnce'
    BY <1>0, <1>6 DEF GoAway, TypeOK, ListedOnce, server
  <2>3. RunPart'
    <3>1. UNCHANGED run /\ socks' = socks /\ lock' = lock
      BY <1>6 DEF GoAway, server
    <3> QED
      BY <1>0, <3>1, RunUndisturbed
  <2> QED
    BY <2>1, <2>2, <2>3 DEF FeedInv, RunPart
<1>7. ASSUME NEW p \in Ports, AcceptFails(p) PROVE FeedInv'
  <2>1. TypeOK'
    <3>1. accepting' \subseteq Ports
      BY <1>0, <1>7 DEF AcceptFails, TypeOK
    <3> QED
      BY <1>0, <1>7, <3>1 DEF AcceptFails, TypeOK, run, client
  <2>2. ListedOnce'
    BY <1>0, <1>7 DEF AcceptFails, ListedOnce, client
  <2>3. RunPart'
    <3>1. UNCHANGED run /\ socks' = socks /\ lock' = lock
      BY <1>7 DEF AcceptFails
    <3> QED
      BY <1>0, <3>1, RunUndisturbed
  <2> QED
    BY <2>1, <2>2, <2>3 DEF FeedInv, RunPart
<1> QED
  BY <1>1, <1>2, <1>3, <1>4, <1>5, <1>6, <1>7 DEF AcceptStep

(***************************************************************************)
(* run's own steps: outside a send, ...                                    *)
(***************************************************************************)
LEMMA BetweenSends ==
  ASSUME FeedInv, Flight \/ NextTick \/ Lock \/ SendReturns PROVE FeedInv'
<1>1. TypeOK /\ ListedOnce /\ HoldsItsLock /\ NotedSoFar
  BY DEF FeedInv
<1>2. CASE Flight
  <2>1. TypeOK'
    BY <1>1, <1>2, FramesOfAFlight DEF Flight, TypeOK, server, client
  <2>2. ListedOnce'
    BY <1>1, <1>2 DEF Flight, ListedOnce, server, client
  <2>3. RunPart'
    BY <1>1, <1>2, FramesOfAFlight DEF Flight, RunPart, HoldsItsLock, ServedSoFar, NotedSoFar,
         NobodyIsSkipped, DeadAreListed
  <2> QED
    BY <2>1, <2>2, <2>3 DEF FeedInv, RunPart
<1>3. CASE NextTick
  <2>1. TypeOK'
    <3>1. tick' \in 0 .. IdentEvery - 1
      BY <1>1, <1>3, ClientAssumption DEF NextTick, TypeOK
    <3> QED
      BY <1>1, <1>3, <3>1 DEF NextTick, TypeOK, server, client
  <2>2. ListedOnce'
    BY <1>1, <1>3 DEF NextTick, ListedOnce, server, client
  <2>3. RunPart'
    BY <1>1, <1>3 DEF NextTick, RunPart, HoldsItsLock, ServedSoFar, NotedSoFar,
         NobodyIsSkipped, DeadAreListed
  <2> QED
    BY <2>1, <2>2, <2>3 DEF FeedInv, RunPart
<1>4. CASE Lock
  <2>0. frames # << >> /\ Head(frames) \in Ports /\ lock'[Head(frames)] = "run"
    BY <1>1, <1>4, AtHand DEF Lock, TypeOK
  <2>1. TypeOK'
    BY <1>1, <1>4 DEF Lock, TypeOK, client
  <2>2. ListedOnce'
    BY <1>1, <1>4 DEF Lock, ListedOnce, client
  <2>3. HoldsItsLock'
    BY <1>4, <2>0 DEF Lock, HoldsItsLock
  <2>4. ServedSoFar'
    BY <1>4 DEF Lock, ServedSoFar
  <2>5. NotedSoFar'
    <3>1. Range(<< >>) = {}
      BY DEF Range
    <3> QED
      BY <1>1, <1>4, <3>1 DEF Lock, NotedSoFar
  <2>6. NobodyIsSkipped' /\ DeadAreListed'
    BY <1>4 DEF Lock, NobodyIsSkipped, DeadAreListed
  <2> QED
    BY <2>1, <2>2, <2>3, <2>4, <2>5, <2>6 DEF FeedInv
<1>5. CASE SendReturns
  <2>1. TypeOK'
    BY <1>1, <1>5, AtHand DEF SendReturns, Unlock, TypeOK, client
  <2>2. ListedOnce'
    BY <1>1, <1>5 DEF SendReturns, ListedOnce, client
  <2>3. RunPart'
    BY <1>1, <1>5, AtHand DEF SendReturns, RunPart, HoldsItsLock, ServedSoFar, NotedSoFar,
         NobodyIsSkipped, DeadAreListed
  <2> QED
    BY <2>1, <2>2, <2>3 DEF FeedInv, RunPart
<1> QED
  BY <1>2, <1>3, <1>4, <1>5

(***************************************************************************)
(* ... along the list, ...                                                 *)
(***************************************************************************)
LEMMA AlongTheList ==
  ASSUME FeedInv, SendTo \/ SendRaises \/ SendDone PROVE FeedInv'
<1>1. TypeOK /\ ListedOnce /\ HoldsItsLock /\ ServedSoFar /\ NotedSoFar /\ pc = "send"
  BY DEF FeedInv, SendTo, SendRaises, SendDone
<1>2. /\ frames # << >> /\ Head(frames) \in Ports
      /\ List \in Seq(Clients) /\ Len(List) \in Nat /\ DOMAIN List = 1 .. Len(List)
  BY <1>1, AtHand
<1>3. socks' = socks /\ lock' = lock /\ frames' = frames /\ List' = List
  BY DEF SendTo, SendRaises, SendDone, Note, List, server
<1>4. HoldsItsLock'
  BY <1>1, <1>2, <1>3 DEF HoldsItsLock, SendTo, SendRaises, SendDone
<1>5. ListedOnce'
  BY <1>1, <1>3 DEF ListedOnce, SendTo, SendRaises, SendDone, server, client
<1>6. next \in Nat /\ next >= 1
  BY <1>1 DEF TypeOK, ServedSoFar
<1>7. CASE SendDone
  <2>1. TypeOK'
    BY <1>1, <1>7 DEF SendDone, TypeOK, server, client
  <2>2. NobodyIsSkipped'
    <3>1. \A i \in 1 .. Len(List) : List[i] \in served
      BY <1>1, <1>2, <1>6, <1>7 DEF ServedSoFar, SendDone
    <3> QED
      BY <1>2, <1>3, <1>7, <3>1 DEF NobodyIsSkipped, SendDone, Range
  <2>3. NotedSoFar' /\ DeadAreListed'
    <3>1. \A c \in Range(dead) : c \in Range(List)
      BY <1>1, <1>2 DEF NotedSoFar, Range
    <3> QED
      BY <1>1, <1>3, <1>7, <3>1 DEF NotedSoFar, DeadAreListed, SendDone
  <2>4. ServedSoFar'
    BY <1>7 DEF ServedSoFar, SendDone
  <2> QED
    BY <1>4, <1>5, <2>1, <2>2, <2>3, <2>4 DEF FeedInv
<1>8. CASE SendTo \/ SendRaises
  <2> DEFINE c == List[next]
  <2>1. c \in Clients /\ next \in 1 .. Len(List) /\ next' = next + 1 /\ pc' = "send"
        /\ served' = served \cup {c}
    BY <1>1, <1>2, <1>6, <1>8, ElementOfSeq DEF SendTo, SendRaises
  <2>2. ServedSoFar'
    <3>1. \A i \in 1 .. Len(List) : i < next + 1 => i < next \/ i = next
      BY <1>6
    <3> QED
      BY <1>1, <1>3, <1>6, <2>1, <3>1 DEF ServedSoFar
  <2>3. NobodyIsSkipped' /\ DeadAreListed'
    BY <2>1 DEF NobodyIsSkipped, DeadAreListed
  <2>4. \A d \in Range(dead) : \E i \in 1 .. Len(List) : i < next + 1 /\ List[i] = d
    BY <1>1, <1>6 DEF NotedSoFar
  <2>5. CASE SendTo
    <3>1. TypeOK'
      <4>1. unread' = [unread EXCEPT ![c] = @ + 1] /\ unread[c] < Room /\ unread[c] \in 0 .. Room
        BY <1>1, <2>1, <2>5 DEF SendTo, HasRoom, TypeOK
      <4>2. unread' \in [Clients -> 0 .. Room]
        BY <1>1, <2>1, <4>1, ClientAssumption DEF TypeOK
      <4> QED
        BY <1>1, <2>1, <2>5, <4>2 DEF SendTo, TypeOK, server
    <3>2. NotedSoFar'
      BY <1>1, <1>3, <2>1, <2>4, <2>5 DEF SendTo, NotedSoFar
    <3> QED
      BY <1>4, <1>5, <2>2, <2>3, <3>1, <3>2 DEF FeedInv
  <2>6. CASE SendRaises
    <3>1. dead' = Append(dead, c) /\ dead \in Seq(Clients)
      BY <1>1, <2>6 DEF SendRaises, Note, TypeOK
    <3>2. c \notin Range(dead)
      <4>1. IsInjective(List)
        BY <1>1, <1>2 DEF ListedOnce, List
      <4> QED
        BY <1>1, <1>2, <1>6, <2>1, <4>1 DEF NotedSoFar, IsInjective
    <3>3. dead' \in Seq(Clients) /\ Range(dead') = Range(dead) \cup {c} /\ IsInjective(dead')
      BY <1>1, <2>1, <3>1, <3>2, AppendOnce DEF NotedSoFar
    <3>4. TypeOK'
      BY <1>1, <2>1, <2>6, <3>3 DEF SendRaises, Note, TypeOK, client
    <3>5. NotedSoFar'
      BY <1>3, <1>6, <2>1, <2>4, <3>3 DEF NotedSoFar
    <3> QED
      BY <1>4, <1>5, <2>2, <2>3, <3>4, <3>5 DEF FeedInv
  <2> QED
    BY <1>8, <2>5, <2>6
<1> QED
  BY <1>7, <1>8

(***************************************************************************)
(* ... and when a dead socket leaves it.                                   *)
(***************************************************************************)
LEMMA OffTheList ==
  ASSUME FeedInv, DropDead PROVE FeedInv'
<1>1. TypeOK /\ ListedOnce /\ HoldsItsLock /\ NotedSoFar /\ NobodyIsSkipped /\ DeadAreListed
      /\ pc = "drop" /\ dead # << >>
  BY DEF FeedInv, DropDead
<1> DEFINE p == Head(frames)
           c == Head(dead)
<1>2. /\ frames # << >> /\ p \in Ports
      /\ List \in Seq(Clients) /\ DOMAIN List = 1 .. Len(List) /\ List = socks[p]
  BY <1>1, AtHand DEF List
<1>3. /\ c \in Clients /\ c \in Range(dead) /\ Tail(dead) \in Seq(Clients)
      /\ Range(Tail(dead)) \subseteq Range(dead)
      /\ IsInjective(Tail(dead)) /\ c \notin Range(Tail(dead))
  BY <1>1, TailOnce DEF TypeOK, NotedSoFar
<1>4. PICK i \in 1 .. Len(List) : List[i] = c /\ socks' = [socks EXCEPT ![p] = RemoveAt(@, i)]
  BY <1>1 DEF DropDead, FirstIndex
<1> DEFINE kept == RemoveAt(List, i)
<1>5. /\ kept \in Seq(Clients) /\ Range(kept) \subseteq Range(List)
      /\ Range(List) \subseteq Range(kept) \cup {c}
      /\ IsInjective(kept) /\ c \notin Range(kept)
  BY <1>1, <1>2, <1>4, RemoveOnce DEF ListedOnce
<1>6. socks' = [socks EXCEPT ![p] = kept] /\ frames' = frames /\ List' = kept
      /\ lock' = lock /\ backlog' = backlog /\ dead' = Tail(dead) /\ served' = served /\ pc' = pc
  BY <1>1, <1>2, <1>4 DEF DropDead, List, TypeOK
<1> HIDE DEF kept
<1>7. TypeOK'
  <2>1. socks' \in [Ports -> Seq(Clients)]
    BY <1>1, <1>2, <1>5, <1>6 DEF TypeOK
  <2>2. conn' = [conn EXCEPT ![c] = "away"] /\ unread' = [unread EXCEPT ![c] = 0]
        /\ tick' = tick /\ next' = next /\ connects' = connects
    BY DEF DropDead
  <2>3. /\ conn' \in [Clients -> {"away", "waiting", "open", "gone"}]
        /\ unread' \in [Clients -> 0 .. Room]
    BY <1>1, <2>2, ClientAssumption DEF TypeOK
  <2> QED
    BY <1>1, <1>3, <1>6, <2>1, <2>2, <2>3 DEF TypeOK, DropDead
<1>8. HoldsItsLock' /\ ServedSoFar'
  BY <1>1, <1>6 DEF HoldsItsLock, ServedSoFar
<1>9. ListedOnce'
  <2>1. \A d \in Clients : conn'[d] = IF d = c THEN "away" ELSE conn[d]
    BY <1>1, <1>3 DEF DropDead, TypeOK
  <2>2. \A q \in Ports : socks'[q] = IF q = p THEN kept ELSE socks[q]
    BY <1>1, <1>6 DEF TypeOK
  <2>3. PortOf[c] = p /\ c \notin backlog[p]
    BY <1>1, <1>2, <1>3 DEF ListedOnce, DeadAreListed
  <2>4. \A q \in Ports : c \notin backlog[q] /\ c \notin Range(socks'[q])
    BY <1>1, <1>5, <2>2, <2>3 DEF ListedOnce
  <2>5. \A q \in Ports : Range(socks[q]) \subseteq Clients /\ backlog[q] \subseteq Clients
    BY <1>1, RangeOfSeq DEF TypeOK
  <2>6. \A q \in Ports : IsInjective(socks'[q]) /\ Range(socks'[q]) \subseteq Range(socks[q])
    BY <1>1, <1>2, <1>5, <2>2 DEF ListedOnce
  <2> QED
    BY <1>1, <1>6, <2>1, <2>4, <2>5, <2>6 DEF ListedOnce
<1>10. NotedSoFar' /\ NobodyIsSkipped' /\ DeadAreListed'
  BY <1>1, <1>3, <1>5, <1>6 DEF NotedSoFar, NobodyIsSkipped, DeadAreListed
<1> QED
  BY <1>7, <1>8, <1>9, <1>10 DEF FeedInv

LEMMA FeedInvariant == Spec => []FeedInv
<1>1. Init => FeedInv
  <2> SUFFICES ASSUME Init PROVE FeedInv
    OBVIOUS
  <2>1. << >> \in Seq(Ports) /\ << >> \in Seq(Clients) /\ IsInjective(<< >>) /\ Range(<< >>) = {}
    BY EmptySeq DEF IsInjective, Range
  <2>2. TypeOK
    BY <2>1, ClientAssumption DEF Init, TypeOK
  <2> QED
    BY <2>1, <2>2 DEF Init, FeedInv, HoldsItsLock, ListedOnce, ServedSoFar, NotedSoFar,
                      NobodyIsSkipped, DeadAreListed
<1>2. FeedInv /\ [Next]_vars => FeedInv'
  <2> SUFFICES ASSUME FeedInv, [Next]_vars PROVE FeedInv'
    OBVIOUS
  <2>1. CASE Run
    BY <2>1, BetweenSends, AlongTheList, OffTheList DEF Run
  <2>2. CASE \E p \in Ports : AcceptStep(p) \/ AcceptFails(p)
    BY <2>2, OthersStep
  <2>3. CASE \E c \in Clients : Connect(c) \/ Read(c) \/ GoAway(c)
    BY <2>3, OthersStep
  <2>4. CASE UNCHANGED vars
    BY <2>4 DEF vars, server, run, client, FeedInv, TypeOK, HoldsItsLock, ListedOnce, ServedSoFar,
                NotedSoFar, NobodyIsSkipped, DeadAreListed, List
  <2> QED
    BY <2>1, <2>2, <2>3, <2>4 DEF Next
<1> QED
  BY <1>1, <1>2, PTL DEF Spec

(***************************************************************************)
(* The feed's lists, locks and buffers keep their types: no socket holds   *)
(* more than it has room for.  (atc_feed.py:137-172)                       *)
(***************************************************************************)
THEOREM FeedTypeCorrect == Spec => []TypeOK
<1>1. FeedInv => TypeOK
  BY DEF FeedInv
<1> QED
  BY <1>1, FeedInvariant, PTL

(***************************************************************************)
(* A send serves every client on its port's list, however clients come and *)
(* go and whichever sockets raise in the middle.  (atc_feed.py:158-165)    *)
(***************************************************************************)
THEOREM EverybodyIsServed == Spec => []NobodyIsSkipped
<1>1. FeedInv => NobodyIsSkipped
  BY DEF FeedInv
<1> QED
  BY <1>1, FeedInvariant, PTL

(***************************************************************************)
(* Removing a dead socket never raises: a client is on its list once, and  *)
(* was noted once.  (atc_feed.py:164-167)                                  *)
(***************************************************************************)
THEOREM RemovalNeverRaises == Spec => []DeadAreListed
<1>1. FeedInv => DeadAreListed
  BY DEF FeedInv
<1> QED
  BY <1>1, FeedInvariant, PTL
===============================================================================
