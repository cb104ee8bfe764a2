-------------------------------- MODULE Timeline --------------------------------
(***************************************************************************)
(* generate_timeline.py: the sorties of the fuel farm's timeline, slot by  *)
(* slot through the hours, and the order its events are written in.  Draws *)
(* of the random generator are free choices; aircraft and pads are left    *)
(* out.                                                                    *)
(***************************************************************************)
EXTENDS Integers

CONSTANTS
  Hours,      \* hours of the timeline
  Surge,      \* the hours of the surge windows
  Presets     \* gallons a sortie may ask for: FUEL_BY_TYPE asks for 1200 or more

Plausible == Hours \in Nat /\ Presets \subseteq {p \in Nat : 20 <= p}

(***************************************************************************)
(* len(TRUCKS) and len(TANKS); the racks are two.                          *)
(***************************************************************************)
NTrucks == 6
NTanks == 3

VARIABLES
  hour, slot,  \* the loops of build_sorties
  dealt,       \* sorties so far: what the round robins count
  sorties

timeline == <<hour, slot, dealt, sorties>>

TimelineInit == hour = 0 /\ slot = 0 /\ dealt = 0 /\ sorties = {}

-------------------------------------------------------------------------------
(***************************************************************************)
(* _rate_at, the even spacing of an hour's slots, and the jitter, which    *)
(* reaches a second further back where a quarter of the spacing is no      *)
(* whole number.                                                           *)
(***************************************************************************)
Rate(h) == IF h \in Surge THEN 32 ELSE 8

Spacing(h) == 3600 \div Rate(h)

Jitter(h) == (- Spacing(h)) \div 4 .. Spacing(h) \div 4

SlotTime == hour * 3600 + slot * Spacing(hour)

Pinned(t) == IF t < 0 THEN 0 ELSE IF t > Hours * 3600 - 1 THEN Hours * 3600 - 1 ELSE t

(***************************************************************************)
(* A sortie with its truck, tank and rack, each dealt round robin, and the *)
(* seconds its parts take.  A load lasts as long as its preset needs at    *)
(* 600 gpm, in whole seconds: in floating point a whole number of them may *)
(* come out one short (int(4900 / 600 * 60) is 489).                       *)
(***************************************************************************)
LoadSeconds(preset) ==
  {l \in preset \div 10 - 1 .. preset \div 10 :
     0 <= l /\ (l = preset \div 10 \/ preset % 10 = 0)}

NewSortie(t0, preset, load, arrive, position, taxi, dispense) ==
  [n |-> dealt, slot |-> SlotTime, t0 |-> t0, preset |-> preset,
   truck |-> dealt % NTrucks, tank |-> dealt % NTanks, rack |-> (dealt % 2) + 1,
   arrive |-> arrive, position |-> position, load |-> load,
   taxi |-> taxi, dispense |-> dispense]

(***************************************************************************)
(* The body of both loops.                                                 *)
(***************************************************************************)
Deal ==
  /\ hour < Hours
  /\ \E j \in Jitter(hour), preset \in Presets :
     \E load \in LoadSeconds(preset),
        arrive \in 30 .. 90, position \in 30 .. 60, taxi \in 180 .. 300, dispense \in 300 .. 600 :
       sorties' = sorties \cup
         {NewSortie(Pinned(SlotTime + j), preset, load, arrive, position, taxi, dispense)}
  /\ dealt' = dealt + 1
  /\ \/ slot + 1 < Rate(hour) /\ slot' = slot + 1 /\ hour' = hour
     \/ slot + 1 = Rate(hour) /\ slot' = 0 /\ hour' = hour + 1

TimelineSpec == TimelineInit /\ [][Deal]_timeline

-------------------------------------------------------------------------------
(***************************************************************************)
(* Sortie.emit: when each event of a sortie falls due.                     *)
(***************************************************************************)
LoadStartAt(s) == s.t0 + s.arrive + s.position

DeliveryStartAt(s) == LoadStartAt(s) + s.load + s.taxi

At(s, k) ==
  CASE k = "order_created" -> s.t0
    [] k = "truck_arrival" -> s.t0 + s.arrive
    [] k = "load_start" -> LoadStartAt(s)
    [] k = "load_end" -> LoadStartAt(s) + s.load
    [] k = "delivery_start" -> DeliveryStartAt(s)
    [] OTHER -> DeliveryStartAt(s) + s.dispense

(***************************************************************************)
(* The file is sorted by time, and events of one second by their name.     *)
(***************************************************************************)
NameOrder(k) ==
  CASE k = "delivery_end" -> 1
    [] k = "delivery_start" -> 2
    [] k = "load_end" -> 3
    [] k = "load_start" -> 4
    [] k = "order_created" -> 5
    [] OTHER -> 6

Before(s, k, t, l) ==
  At(s, k) < At(t, l) \/ (At(s, k) = At(t, l) /\ NameOrder(k) < NameOrder(l))

-------------------------------------------------------------------------------
(***************************************************************************)
(* Every sortie's events are written, and so replayed, in its own order,   *)
(* although the sort puts load_end before load_start within one second:    *)
(* what the handlers' models take for granted.                             *)
(* (generate_timeline.py:73-134, 202)                                      *)
(***************************************************************************)
RunsInOrder(s) ==
  /\ Before(s, "order_created", s, "truck_arrival")
  /\ Before(s, "truck_arrival", s, "load_start")
  /\ Before(s, "load_start", s, "load_end")
  /\ Before(s, "load_end", s, "delivery_start")
  /\ Before(s, "delivery_start", s, "delivery_end")

SortiesRunInOrder == \A s \in sorties : RunsInOrder(s)

(***************************************************************************)
(* A truck always loads at the same rack, and from the same tank: the      *)
(* three counters never part, because six is a multiple of two and three.  *)
(* That it keeps its rack is what lets load_end find the load.             *)
(* (generate_timeline.py:165-170)                                          *)
(***************************************************************************)
TrucksKeepTheirRack ==
  \A r, s \in sorties : r.truck = s.truck => r.rack = s.rack /\ r.tank = s.tank

(***************************************************************************)
(* A truck's sorties begin in the order they were dealt, however the       *)
(* jitter falls and although the spacing changes with the hour; sorties of *)
(* different trucks need not.  (generate_timeline.py:153-166)              *)
(***************************************************************************)
TrucksTakeTurns ==
  \A r, s \in sorties : r.truck = s.truck /\ r.n < s.n => r.t0 < s.t0

(***************************************************************************)
(* No sortie is pinned to the end of the timeline: the slots end early     *)
(* enough for any jitter.  (generate_timeline.py:160-161)                  *)
(***************************************************************************)
NeverPinnedToTheEnd ==
  \A s \in sorties : s.t0 < Hours * 3600 - 1
===============================================================================
