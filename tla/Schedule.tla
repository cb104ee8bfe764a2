------------------------------- MODULE Schedule -------------------------------
(***************************************************************************)
(* generate_schedule.py: the flights of one exercise cycle, drawn at       *)
(* random before the exercise and replayed by the ATC feed for ever.  Two  *)
(* loops advance a clock over the cycle: one starts loiters that hand the  *)
(* station over to each other, one starts arrivals, departures, patterns   *)
(* and transits.  Every draw of the random generator is a free choice.     *)
(*                                                                         *)
(* Of a flight the module keeps its number (the icao_hex), its kind, its   *)
(* departure and the offsets of its waypoints, in seconds; where the       *)
(* waypoints are is left out.  The time between two waypoints is a         *)
(* floating-point number, here milliseconds.                               *)
(***************************************************************************)
EXTENDS Integers, Sequences

CONSTANTS
  Cycle,        \* seconds of the exercise cycle
  OrbitDur,     \* seconds a loiter holds
  MinHold,      \* no loiter of fewer seconds is started (1200)
  Interval,     \* mean seconds between movements
  Legs,         \* milliseconds a leg between two waypoints may take
  MaxLeg        \* the most seconds such a leg may take

(***************************************************************************)
(* What the parameters have to be: the shipped ones are 172800, 2700, 1200 *)
(* and 1200 s.  An orbit duration below 2 or an interval below 2 would not *)
(* advance the clock at all.                                               *)
(***************************************************************************)
Sensible ==
  /\ Cycle \in Nat /\ MaxLeg \in Nat
  /\ OrbitDur \in Nat /\ 3 <= OrbitDur
  /\ MinHold \in 1 .. OrbitDur
  /\ Interval \in Nat /\ 2 <= Interval
  /\ Legs \subseteq 0 .. (1000 * MaxLeg)

VARIABLES
  phase,        \* "loiters", "lap", "movements", "build" or "done"
  t,            \* the clock of the loop in progress
  n,            \* number of the next flight
  kind,         \* of the flight under construction
  left,         \* anchors still to be visited by build
  ms,           \* its clock, milliseconds after departure
  offsets,      \* its waypoints' offset_s so far
  flights

scheduleVars == <<phase, t, n, kind, left, ms, offsets, flights>>

Movements == {"arrival", "departure", "pattern", "transit"}

Kinds == {"orbit"} \cup Movements

ScheduledFlight == [n : Nat, kind : Kinds, dep : Nat, offsets : Seq(Nat)]

ScheduleTypeOK ==
  /\ phase \in {"loiters", "lap", "movements", "build", "done"}
  /\ t \in Nat /\ n \in Nat /\ left \in Nat /\ ms \in Nat
  /\ kind \in Kinds
  /\ offsets \in Seq(Nat)
  /\ flights \subseteq ScheduledFlight

ScheduleInit ==
  /\ phase = "loiters" /\ t = 0 /\ n = 1
  /\ kind = "orbit" /\ left = 0 /\ ms = 0 /\ offsets = <<>>
  /\ flights = {}

-------------------------------------------------------------------------------
(***************************************************************************)
(* int(round(t)), a half to the even side, and int(t): how racetrack and   *)
(* build, and how a transit, turn times into offsets.                      *)
(***************************************************************************)
Rounded(m) ==
  LET q == m \div 1000
      r == m % 1000
  IN  IF r < 500 \/ (r = 500 /\ q % 2 = 0) THEN q ELSE q + 1

OffsetOf(k, m) == IF k = "transit" THEN m \div 1000 ELSE Rounded(m)

LastOf(offs) == offs[Len(offs)]

(***************************************************************************)
(* A flight ends up in the list under the next free number.                *)
(***************************************************************************)
Emit ==
  /\ flights' = flights \cup {[n |-> n, kind |-> kind, dep |-> t, offsets |-> offsets]}
  /\ n' = n + 1

-------------------------------------------------------------------------------
(***************************************************************************)
(* The loiters.                                                            *)
(***************************************************************************)

(***************************************************************************)
(* dur: a loiter does not hold beyond the cycle.                           *)
(***************************************************************************)
Hold == IF OrbitDur <= Cycle - t THEN OrbitDur ELSE Cycle - t

(***************************************************************************)
(* int(orbit_dur * uniform(0.75, 0.95)): the next loiter starts before     *)
(* this one's time is up.                                                  *)
(***************************************************************************)
MinStep == (75 * OrbitDur) \div 100

MaxStep == (95 * OrbitDur) \div 100

NextLoiter == \E step \in MinStep .. MaxStep : t' = t + step

(***************************************************************************)
(* racetrack begins at its first node.                                     *)
(***************************************************************************)
StartLoiter ==
  /\ phase = "loiters" /\ t < Cycle /\ Hold >= MinHold
  /\ phase' = "lap"
  /\ kind' = "orbit" /\ ms' = 0 /\ offsets' = <<0>>
  /\ UNCHANGED <<t, n, left, flights>>

SkipLoiter ==
  /\ phase = "loiters" /\ t < Cycle /\ Hold < MinHold
  /\ NextLoiter
  /\ UNCHANGED <<phase, n, kind, left, ms, offsets, flights>>

(***************************************************************************)
(* racetrack flies to the next node if it gets there in time, and is over  *)
(* if not.                                                                 *)
(***************************************************************************)
LapNode ==
  /\ phase = "lap"
  /\ \E leg \in Legs :
       /\ ms + leg <= 1000 * Hold
       /\ ms' = ms + leg
  /\ offsets' = Append(offsets, OffsetOf(kind, ms'))
  /\ UNCHANGED <<phase, t, n, kind, left, flights>>

LapOver ==
  /\ phase = "lap"
  /\ \E leg \in Legs : ms + leg > 1000 * Hold
  /\ Emit
  /\ NextLoiter
  /\ phase' = "loiters"
  /\ UNCHANGED <<kind, left, ms, offsets>>

LoitersDone ==
  /\ phase = "loiters" /\ t >= Cycle
  /\ phase' = "movements" /\ t' = 0
  /\ UNCHANGED <<n, kind, left, ms, offsets, flights>>

-------------------------------------------------------------------------------
(***************************************************************************)
(* The movements.                                                          *)
(***************************************************************************)

(***************************************************************************)
(* The anchors of a movement's template (two circuits of a pattern and the *)
(* landing), and the three points of a transit.                            *)
(***************************************************************************)
Anchors(k) ==
  CASE k = "arrival" -> 6
    [] k = "departure" -> 5
    [] k = "pattern" -> 13
    [] OTHER -> 3

StartMovement ==
  /\ phase = "movements" /\ t < Cycle
  /\ \E k \in Movements : kind' = k /\ left' = Anchors(k) - 1
  /\ phase' = "build"
  /\ ms' = 0 /\ offsets' = <<0>>
  /\ UNCHANGED <<t, n, flights>>

BuildAnchor ==
  /\ phase = "build" /\ left > 0
  /\ left' = left - 1
  /\ \E leg \in Legs : ms' = ms + leg
  /\ offsets' = Append(offsets, OffsetOf(kind, ms'))
  /\ UNCHANGED <<phase, t, n, kind, flights>>

(***************************************************************************)
(* A movement that would not be over when the cycle is, is dropped, and    *)
(* its number used again.                                                  *)
(***************************************************************************)
FileMovement ==
  /\ phase = "build" /\ left = 0
  /\ \/ t + LastOf(offsets) <= Cycle /\ Emit
     \/ t + LastOf(offsets) > Cycle /\ UNCHANGED <<flights, n>>
  /\ \E step \in ((60 * Interval) \div 100) .. ((140 * Interval) \div 100) : t' = t + step
  /\ phase' = "movements"
  /\ UNCHANGED <<kind, left, ms, offsets>>

(***************************************************************************)
(* The list is sorted by departure and written.                            *)
(***************************************************************************)
MovementsDone ==
  /\ phase = "movements" /\ t >= Cycle
  /\ phase' = "done"
  /\ UNCHANGED <<t, n, kind, left, ms, offsets, flights>>

-------------------------------------------------------------------------------
ScheduleNext ==
  \/ StartLoiter \/ SkipLoiter \/ LapNode \/ LapOver \/ LoitersDone
  \/ StartMovement \/ BuildAnchor \/ FileMovement \/ MovementsDone

ScheduleSpec == ScheduleInit /\ [][ScheduleNext]_scheduleVars

-------------------------------------------------------------------------------
(***************************************************************************)
(* What the feed makes of it: a flight is on the scope from its first to   *)
(* its last waypoint (_interp gives no position before or after).          *)
(***************************************************************************)
OnScope(f, x) == f.dep <= x /\ x <= f.dep + LastOf(f.offsets)

Loiters == {f \in flights : f.kind = "orbit"}

(***************************************************************************)
(* No flight is in the air when the cycle wraps, where the feed, which     *)
(* takes its clock modulo the cycle, would make it vanish.                 *)
(***************************************************************************)
NobodyAloftAtTheWrap == \A f \in flights : f.dep + LastOf(f.offsets) <= Cycle

(***************************************************************************)
(* A flight's offsets begin at 0 and never go back, whatever the rounding  *)
(* does: _interp walks them in order and divides by their differences (or  *)
(* by 1: two waypoints may share a second).                                *)
(***************************************************************************)
Ascends(offs) ==
  /\ Len(offs) > 0 /\ offs[1] = 0
  /\ \A i, j \in 1 .. Len(offs) : i <= j => offs[i] <= offs[j]

OffsetsAscend == \A f \in flights : Ascends(f.offsets)

(***************************************************************************)
(* No two flights have the same address, although the number of a dropped  *)
(* movement is used again.                                                 *)
(***************************************************************************)
AddressesDiffer == \A f, g \in flights : f.n = g.n => f = g

(***************************************************************************)
(* The station never has three loiters at once ("without overcrowding the  *)
(* scope"), handoffs included.                                             *)
(***************************************************************************)
NeverThreeLoiters ==
  \A f, g, h \in Loiters, x \in 0 .. Cycle :
    OnScope(f, x) /\ OnScope(g, x) /\ OnScope(h, x) => f = g \/ g = h \/ f = h

(***************************************************************************)
(* "There is always >=1 ambient target" (generate_schedule.py:243), as far *)
(* as it is true: until MinHold seconds before the end of the cycle, some  *)
(* loiter is on the scope or left it no more than one leg ago, since a     *)
(* racetrack stops at the last node it reaches in time.                    *)
(***************************************************************************)
AmbientOrJustLeft ==
  phase \in {"movements", "build", "done"} =>
    \A x \in 0 .. (Cycle - MinHold) :
      \E f \in Loiters : f.dep <= x /\ x <= f.dep + LastOf(f.offsets) + MaxLeg
===============================================================================
