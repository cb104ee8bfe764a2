-------------------------------- MODULE Metar --------------------------------
(***************************************************************************)
(* From the weather host's severity to what the flight data processor      *)
(* shows: metar_feed.py turns a severity into visibility and cloud layers  *)
(* of a METAR, app.py reads them back, derives ceiling and flight category *)
(* and picks the active runway from the wind.                              *)
(*                                                                         *)
(* Severities are percents, visibilities half miles, heights hundreds of   *)
(* feet in a METAR and feet on the page, directions whole degrees.         *)
(***************************************************************************)
EXTENDS Integers

Severities == 0 .. 100

(***************************************************************************)
(* round(x / 100), a half to the even side.                                *)
(***************************************************************************)
RoundedHundredth(x) ==
  LET q == x \div 100
  IN  q + (IF x % 100 > 50 \/ (x % 100 = 50 /\ q % 2 = 1) THEN 1 ELSE 0)

Base(w) ==
  LET hundreds == RoundedHundredth(4500 - 42 * w)
  IN  IF hundreds < 2 THEN 2 ELSE hundreds

(***************************************************************************)
(* The thresholds of _sky, and the band _band gives them.                  *)
(***************************************************************************)
Band(w) ==
  CASE w < 20 -> 0
    [] w >= 20 /\ w < 40 -> 1
    [] w >= 40 /\ w < 58 -> 2
    [] w >= 58 /\ w < 72 -> 3
    [] w >= 72 /\ w < 85 -> 4
    [] w >= 85 /\ w < 93 -> 5
    [] OTHER -> 6

(***************************************************************************)
(* The visibility token of a band, and the lowest layer that is a ceiling  *)
(* (BKN or OVC), in hundreds of feet; FEW and SCT are none.                *)
(***************************************************************************)
Visibility(w) ==
  CASE Band(w) \in {0, 1} -> 20
    [] Band(w) = 2 -> 16
    [] Band(w) = 3 -> 12
    [] Band(w) = 4 -> 8
    [] Band(w) = 5 -> 4
    [] OTHER -> 3

HasCeiling(w) == Band(w) >= 2

CeilingLayer(w) == IF Band(w) = 2 THEN Base(w) + 20 ELSE Base(w)

(***************************************************************************)
(* decode_metar: the ceiling is the first BKN, OVC or VV layer, in feet.   *)
(* _flight_cat takes no ceiling for a very high one.                       *)
(***************************************************************************)
NoCeiling == 99999

Ceiling(w) == IF HasCeiling(w) THEN 100 * CeilingLayer(w) ELSE NoCeiling

(***************************************************************************)
(* _flight_cat; visibility v in half miles.                                *)
(***************************************************************************)
FlightCat(c, v) ==
  CASE c < 500 \/ v < 2 -> "LIFR"
    [] ~ (c < 500 \/ v < 2) /\ (c < 1000 \/ v < 6) -> "IFR"
    [] ~ (c < 1000 \/ v < 6) /\ (c <= 3000 \/ v <= 10) -> "MVFR"
    [] OTHER -> "VFR"

Better == [cat \in {"LIFR", "IFR", "MVFR", "VFR"} |->
            CASE cat = "LIFR" -> 0 [] cat = "IFR" -> 1 [] cat = "MVFR" -> 2 [] OTHER -> 3]

Category(w) == FlightCat(Ceiling(w), Visibility(w))

-------------------------------------------------------------------------------
(***************************************************************************)
(* _angdiff, and the runway ends active_runway chooses from: both ends of  *)
(* each runway, of which it takes one with the least angle to the wind.    *)
(***************************************************************************)
Degrees == 0 .. 359

AngDiff(a, b) ==
  LET d == ((a - b + 180) % 360) - 180
  IN  IF d < 0 THEN - d ELSE d

Ends(headings) == headings \cup {(h + 180) % 360 : h \in headings}

MostIntoWind(headings, wind) ==
  {e \in Ends(headings) : \A f \in Ends(headings) : AngDiff(e, wind) <= AngDiff(f, wind)}

-------------------------------------------------------------------------------
(***************************************************************************)
(* _fmt_wind: the true direction, here in tenths of a degree, to the       *)
(* nearest ten degrees, north as 360; below 3 knots (speeds in tenths) the *)
(* token is 00000KT, which decode_metar reads as direction 0.              *)
(***************************************************************************)
Tenths == 0 .. 3599

ReportedDir(x) ==
  LET dd == (RoundedHundredth(x) * 10) % 360
  IN  IF dd = 0 THEN 360 ELSE dd

DecodedDir(x, speed) == IF speed < 30 THEN 0 ELSE ReportedDir(x)

(***************************************************************************)
(* The angle between the true wind and a runway end, in tenths.            *)
(***************************************************************************)
TrueAngle(e, x) ==
  LET d == ((10 * e - x + 1800) % 3600) - 1800
  IN  IF d < 0 THEN - d ELSE d
===============================================================================
