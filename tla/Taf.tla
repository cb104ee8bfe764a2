---------------------------------- MODULE Taf ----------------------------------
(***************************************************************************)
(* metar_feed.py's taf_at: a forecast group for the first hour, and a new  *)
(* one (FM) at every later hour whose weather is in another band.          *)
(***************************************************************************)
EXTENDS Metar

CONSTANTS
  Hours,      \* hours of validity (24)
  Severity    \* Severity[h]: conditions() at the h-th hour, modulo the cycle

Forecastable == Hours \in Nat \ {0} /\ Severity \in [0 .. Hours - 1 -> Severities]

VARIABLES
  hour,     \* next hour of the loop
  last,     \* band of the last group
  groups    \* groups so far, by their first hour

TafInit ==
  /\ hour = 1
  /\ last = Band(Severity[0])
  /\ groups = {[from |-> 0, band |-> last]}

AddHour ==
  /\ hour < Hours
  /\ LET band == Band(Severity[hour])
     IN  /\ groups' = IF band # last THEN groups \cup {[from |-> hour, band |-> band]} ELSE groups
         /\ last' = band
  /\ hour' = hour + 1

TafSpec == TafInit /\ [][AddHour]_<<hour, last, groups>>

-------------------------------------------------------------------------------
(***************************************************************************)
(* The group in force at hour k is the last one that begins by then.       *)
(***************************************************************************)
InForce(g, k) ==
  /\ g \in groups /\ g.from <= k
  /\ \A f \in groups : f.from <= g.from \/ f.from > k

(***************************************************************************)
(* What a reader takes from the forecast for an hour is that hour's band:  *)
(* a change that lasts one hour is in it, and nothing later overrides an   *)
(* hour.  (metar_feed.py:204-212)                                          *)
(***************************************************************************)
ForecastIsExact ==
  \A k \in 0 .. hour - 1 : \A g \in groups : InForce(g, k) => g.band = Band(Severity[k])

(***************************************************************************)
(* Every hour has one group in force.  (metar_feed.py:201-212)             *)
(***************************************************************************)
SomeGroupInForce == \A k \in 0 .. hour - 1 : \E g \in groups : InForce(g, k)
===============================================================================
