------------------------------ MODULE AtcProofs ------------------------------
(***************************************************************************)
(* What holds of every report, every forecast, every airfield and every    *)
(* message.                                                                *)
(***************************************************************************)
EXTENDS Taf, Adsb, FdpWeather, TLAPS

(***************************************************************************)
(* A lower ceiling or a lower visibility never shows a better category.    *)
(***************************************************************************)
THEOREM CategoryIsMonotone ==
  ASSUME NEW c \in Nat, NEW d \in Nat, c <= d,
         NEW u \in Nat, NEW v \in Nat, u <= v
  PROVE  Better[FlightCat(c, u)] <= Better[FlightCat(d, v)]
<1>1. CASE FlightCat(d, v) = "VFR"
  <2>1. FlightCat(c, u) \in {"LIFR", "IFR", "MVFR", "VFR"}
    BY DEF FlightCat
  <2> QED
    BY <1>1, <2>1 DEF Better
<1>2. CASE FlightCat(d, v) = "MVFR"
  <2>1. FlightCat(c, u) \in {"LIFR", "IFR", "MVFR"}
    BY <1>2 DEF FlightCat
  <2> QED
    BY <1>2, <2>1 DEF Better
<1>3. CASE FlightCat(d, v) = "IFR"
  <2>1. FlightCat(c, u) \in {"LIFR", "IFR"}
    BY <1>3 DEF FlightCat
  <2> QED
    BY <1>3, <2>1 DEF Better
<1>4. CASE FlightCat(d, v) = "LIFR"
  <2>1. FlightCat(c, u) = "LIFR"
    BY <1>4 DEF FlightCat
  <2> QED
    BY <1>4, <2>1 DEF Better
<1> QED
  BY <1>1, <1>2, <1>3, <1>4 DEF FlightCat

(***************************************************************************)
(* Rounding keeps the order.                                               *)
(***************************************************************************)
LEMMA RoundingIsMonotone ==
  ASSUME NEW x \in Nat, NEW y \in Nat, x <= y
  PROVE  /\ RoundedHundredth(x) \in Nat
         /\ RoundedHundredth(x) <= RoundedHundredth(y)
  BY SMTT(30) DEF RoundedHundredth

LEMMA BaseFalls ==
  ASSUME NEW w \in Severities, NEW z \in Severities, w <= z
  PROVE  Base(w) \in Nat /\ Base(z) \in Nat /\ Base(z) <= Base(w)
<1>1. /\ 4500 - 42 * w \in Nat
      /\ 4500 - 42 * z \in Nat
      /\ 4500 - 42 * z <= 4500 - 42 * w
  BY DEF Severities
<1> QED
  BY <1>1, RoundingIsMonotone DEF Base

(***************************************************************************)
(* As the weather gets worse, ceiling and visibility fall, and the page    *)
(* never shows a better category, across all of _sky's thresholds.         *)
(***************************************************************************)
LEMMA BandRises ==
  ASSUME NEW w \in Severities, NEW z \in Severities, w <= z
  PROVE  Band(w) \in 0 .. 6 /\ Band(z) \in 0 .. 6 /\ Band(w) <= Band(z)
  BY DEF Severities, Band

LEMMA VisibilityFalls ==
  ASSUME NEW w \in Severities, NEW z \in Severities, w <= z
  PROVE  Visibility(w) \in Nat /\ Visibility(z) \in Nat /\ Visibility(z) <= Visibility(w)
  BY BandRises DEF Visibility

(***************************************************************************)
(* A ceiling is a height, and far below NoCeiling.                         *)
(***************************************************************************)
LEMMA CeilingIsLow ==
  ASSUME NEW w \in Severities
  PROVE  Base(w) \in 0 .. 46
<1>1. 4500 - 42 * w \in 0 .. 4500
  BY DEF Severities
<1> QED
  BY <1>1, SMTT(60) DEF Base, RoundedHundredth

LEMMA CeilingFalls ==
  ASSUME NEW w \in Severities, NEW z \in Severities, w <= z
  PROVE  Ceiling(w) \in Nat /\ Ceiling(z) \in Nat /\ Ceiling(z) <= Ceiling(w)
  BY BandRises, BaseFalls, CeilingIsLow
     DEF Ceiling, CeilingLayer, HasCeiling, NoCeiling

THEOREM WorseWeatherWorseCategory ==
  ASSUME NEW w \in Severities, NEW z \in Severities, w <= z
  PROVE  Better[Category(z)] <= Better[Category(w)]
  BY CeilingFalls, VisibilityFalls, CategoryIsMonotone DEF Category

-------------------------------------------------------------------------------
(***************************************************************************)
(* Of the two ends of a runway one has at most 90 degrees to the wind.     *)
(***************************************************************************)
LEMMA OneEndIntoWind ==
  ASSUME NEW h \in Degrees, NEW wind \in 0 .. 360
  PROVE  AngDiff(h, wind) <= 90 \/ AngDiff((h + 180) % 360, wind) <= 90
  BY SMTT(30) DEF Degrees, AngDiff

(***************************************************************************)
(* active_runway: whatever runways the field has and wherever the wind     *)
(* comes from, the active runway never has a tailwind.                     *)
(***************************************************************************)
THEOREM NeverATailwind ==
  ASSUME NEW headings \in SUBSET Degrees, NEW wind \in 0 .. 360,
         NEW e \in MostIntoWind(headings, wind)
  PROVE  AngDiff(e, wind) <= 90
<1>1. PICK h \in headings : TRUE
  BY DEF MostIntoWind, Ends
<1>2. /\ AngDiff(e, wind) <= AngDiff(h, wind)
      /\ AngDiff(e, wind) <= AngDiff((h + 180) % 360, wind)
  BY <1>1 DEF MostIntoWind, Ends
<1>3. /\ e \in Int
      /\ h \in Degrees
  BY <1>1 DEF MostIntoWind, Ends, Degrees
<1>4. /\ AngDiff(e, wind) \in Int
      /\ AngDiff(h, wind) \in Int
      /\ AngDiff((h + 180) % 360, wind) \in Int
  BY <1>3 DEF AngDiff, Degrees
<1> QED
  BY <1>2, <1>3, <1>4, OneEndIntoWind

-------------------------------------------------------------------------------
(***************************************************************************)
(* _fmt_wind across north: the reported direction is one of the 36 tens    *)
(* from 010 to 360, and at most five degrees from the true one.            *)
(***************************************************************************)
LEMMA ReportIsNear ==
  ASSUME NEW x \in Tenths
  PROVE  /\ ReportedDir(x) \in 1 .. 360
         /\ ReportedDir(x) % 10 = 0
         /\ TrueAngle(ReportedDir(x), x) <= 50
  BY SMTT(60) DEF Tenths, ReportedDir, RoundedHundredth, TrueAngle

LEMMA AnglesAdd ==
  ASSUME NEW e \in Degrees, NEW w \in 0 .. 360, NEW x \in Tenths
  PROVE  /\ TrueAngle(e, x) <= 10 * AngDiff(e, w) + TrueAngle(w, x)
         /\ TrueAngle(e, x) \in Int /\ AngDiff(e, w) \in Int /\ TrueAngle(w, x) \in Int
  BY SMTT(60) DEF Degrees, Tenths, AngDiff, TrueAngle

(***************************************************************************)
(* From the true wind through the METAR's rounding, its decoding and the   *)
(* choice of the runway: against the true wind the active runway has a     *)
(* tailwind of five degrees beyond abeam at most.                          *)
(***************************************************************************)
THEOREM TrueTailwindIsSlight ==
  ASSUME NEW headings \in SUBSET Degrees, NEW x \in Tenths,
         NEW speed \in Nat, speed >= 30,
         NEW e \in MostIntoWind(headings, DecodedDir(x, speed))
  PROVE  TrueAngle(e, x) <= 950
<1>1. DecodedDir(x, speed) = ReportedDir(x) /\ ReportedDir(x) \in 1 .. 360
  BY ReportIsNear DEF DecodedDir
<1>2. ReportedDir(x) \in 0 .. 360
  BY <1>1
<1>3. AngDiff(e, ReportedDir(x)) <= 90
  BY <1>1, <1>2, NeverATailwind
<1>4. e \in Degrees
  <2>1. \A g \in Degrees : (g + 180) % 360 \in Degrees
    BY DEF Degrees
  <2> QED
    BY <2>1 DEF MostIntoWind, Ends
<1>5. TrueAngle(ReportedDir(x), x) <= 50
  BY ReportIsNear
<1> QED
  BY <1>2, <1>3, <1>4, <1>5, AnglesAdd

-------------------------------------------------------------------------------
(***************************************************************************)
(* The forecast.                                                           *)
(***************************************************************************)
TafInv ==
  /\ hour \in 1 .. Hours
  /\ last = Band(Severity[hour - 1])
  /\ \A g \in groups : g.from \in 0 .. hour - 1
  /\ \E g \in groups : InForce(g, hour - 1)
  /\ ForecastIsExact /\ SomeGroupInForce

(***************************************************************************)
(* Every hour of the forecast has a group in force, of the hour's band.    *)
(***************************************************************************)
THEOREM ForecastMatches ==
  ASSUME Forecastable PROVE TafSpec => [](ForecastIsExact /\ SomeGroupInForce)
<1>1. TafInit => TafInv
  BY DEF TafInit, TafInv, Forecastable, InForce, ForecastIsExact, SomeGroupInForce
<1>2. TafInv /\ [AddHour]_<<hour, last, groups>> => TafInv'
  <2> SUFFICES ASSUME TafInv, [AddHour]_<<hour, last, groups>> PROVE TafInv'
    OBVIOUS
  <2>1. CASE UNCHANGED <<hour, last, groups>>
    BY <2>1 DEF TafInv, InForce, ForecastIsExact, SomeGroupInForce
  <2>2. CASE AddHour
    <3> DEFINE band == Band(Severity[hour])
    <3>1. hour \in Nat /\ hour >= 1 /\ hour < Hours /\ hour' = hour + 1 /\ last' = band
      BY <2>2 DEF TafInv, AddHour, Forecastable
    <3>2. PICK new : new = [from |-> hour, band |-> band]
      OBVIOUS
    <3>3. groups' = IF band # last THEN groups \cup {new} ELSE groups
      BY <2>2, <3>2 DEF AddHour
    <3>4. \A g \in groups : g.from \in 0 .. hour - 1
      BY DEF TafInv
    <3>5. \A k \in 0 .. hour - 1 : \A g : InForce(g, k)' <=> InForce(g, k)
      BY <3>1, <3>3, <3>4, <3>2 DEF InForce
    <3>6. groups \subseteq groups' /\ (\A g \in groups' : g.from \in 0 .. hour /\ hour \in Nat)
      BY <3>1, <3>3, <3>4, <3>2
    <3>7. \A k \in Nat : k = hour =>
            /\ \E g \in groups' : InForce(g, k)'
            /\ \A g : InForce(g, k)' => g.band = band
      <4>1. CASE band # last
        <5>1. groups' = groups \cup {new}
          BY <3>3, <4>1
        <5>2. \A k \in Nat : k = hour => InForce(new, k)'
          BY <3>4, <3>2, <5>1 DEF InForce
        <5>3. \A k \in Nat : k = hour => \A g \in groups : ~InForce(g, k)'
          BY <3>1, <3>4, <3>2, <5>1 DEF InForce
        <5> QED
          BY <3>2, <5>1, <5>2, <5>3 DEF InForce
      <4>2. CASE band = last
        <5>1. groups' = groups
          BY <3>3, <4>2
        <5>2. \A k \in Nat : k = hour => \A g : InForce(g, k)' <=> InForce(g, k - 1)
          BY <3>1, <3>4, <5>1 DEF InForce
        <5>3. \E g \in groups : InForce(g, hour - 1)
          BY DEF TafInv
        <5>4. \A g : InForce(g, hour - 1) => g.band = last
          BY <3>1 DEF TafInv, ForecastIsExact, InForce
        <5> QED
          BY <4>2, <5>1, <5>2, <5>3, <5>4
      <4> QED
        BY <4>1, <4>2
    <3>8. (hour \in 1 .. Hours /\ last = Band(Severity[hour - 1]))'
      BY <3>1 DEF Forecastable
    <3>9. (\A g \in groups : g.from \in 0 .. hour - 1)'
      BY <3>1, <3>6
    <3>10. \A k \in 0 .. hour' - 1 : k \in 0 .. hour - 1 \/ (k \in Nat /\ k = hour)
      BY <3>1
    <3>11. ForecastIsExact'
      <4> SUFFICES ASSUME NEW k \in 0 .. hour' - 1, NEW g \in groups', InForce(g, k)'
                   PROVE  g.band = Band(Severity[k])
        BY DEF ForecastIsExact
      <4>1. CASE k \in 0 .. hour - 1
        <5>1. InForce(g, k)
          BY <3>5, <4>1
        <5> QED
          BY <4>1, <5>1 DEF TafInv, ForecastIsExact, InForce
      <4>2. CASE k \in Nat /\ k = hour
        BY <3>7, <4>2
      <4> QED
        BY <3>10, <4>1, <4>2
    <3>12. SomeGroupInForce'
      <4> SUFFICES ASSUME NEW k \in 0 .. hour' - 1 PROVE \E g \in groups' : InForce(g, k)'
        BY DEF SomeGroupInForce
      <4>1. CASE k \in 0 .. hour - 1
        <5>1. PICK g \in groups : InForce(g, k)
          BY <4>1 DEF TafInv, SomeGroupInForce
        <5>2. InForce(g, k)' /\ g \in groups'
          BY <3>5, <3>6, <4>1, <5>1
        <5> QED
          BY <5>2
      <4>2. CASE k \in Nat /\ k = hour
        BY <3>7, <4>2
      <4> QED
        BY <3>10, <4>1, <4>2
    <3>13. (\E g \in groups : InForce(g, hour - 1))'
      <4>1. hour' - 1 = hour /\ hour \in Nat
        BY <3>1
      <4> QED
        BY <3>12, <4>1 DEF SomeGroupInForce
    <3> QED
      BY <3>8, <3>9, <3>11, <3>12, <3>13 DEF TafInv
  <2> QED
    BY <2>1, <2>2
<1>3. TafInv => ForecastIsExact /\ SomeGroupInForce
  BY DEF TafInv
<1> QED
  BY <1>1, <1>2, <1>3, PTL DEF TafSpec

-------------------------------------------------------------------------------
(***************************************************************************)
(* The feed's altitude: what a receiver reads is the altitude rounded down *)
(* to 25 feet, for everything below 50200 feet, and the Q bit says so.     *)
(***************************************************************************)
THEOREM AltitudeReadsBack ==
  ASSUME NEW ft \in Int, -1000 <= ft, ft < 50200
  PROVE  /\ EncodeAlt(ft) < 4096
         /\ QBit(EncodeAlt(ft)) = 1
         /\ DecodeAlt(EncodeAlt(ft)) <= ft
         /\ ft < DecodeAlt(EncodeAlt(ft)) + 25
<1> DEFINE n == (ft + 1000) \div 25
<1>1. n \in Int /\ 0 <= n /\ n < 2048 /\ 25 * n <= ft + 1000 /\ ft + 1000 < 25 * n + 25
  OBVIOUS
<1>2. EncodeAlt(ft) = (n \div 16) * 32 + 16 + (n % 16)
  <2>1. (n \div 16) % 128 = n \div 16
    BY <1>1
  <2> QED
    BY <2>1 DEF EncodeAlt
<1> HIDE DEF n
<1> DEFINE f == (n \div 16) * 32 + 16 + (n % 16)
<1>3. /\ f \in Int /\ f < 4096
      /\ (f \div 16) % 2 = 1
      /\ f \div 32 = n \div 16
      /\ f % 16 = n % 16
  BY <1>1
<1>4. n = (n \div 16) * 16 + (n % 16)
  BY <1>1
<1>5. DecodeAlt(f) = 25 * n - 1000
  BY <1>3, <1>4 DEF DecodeAlt
<1> QED
  BY <1>1, <1>2, <1>3, <1>5 DEF QBit

(***************************************************************************)
(* Whatever the speed, the field is a ten-bit number that is not "no       *)
(* information", and up to 1021 knots it reads back as it was.             *)
(***************************************************************************)
THEOREM SpeedReadsBack ==
  ASSUME NEW v \in Nat
  PROVE  /\ SpeedField(v) \in 1 .. 1023
         /\ v < 1022 => SpeedField(v) - 1 = v
  BY DEF SpeedField

(***************************************************************************)
(* CPR.  The nearest step is within half a step; it may be the next zone's *)
(* first.                                                                  *)
(***************************************************************************)
LEMMA NearestStepIsNear ==
  ASSUME NEW d \in {EvenHeight, OddHeight}, NEW r \in Nat, r < d
  PROVE  /\ NearestStep(d, r) \in Nat
         /\ NearestStep(d, r) <= Steps
         /\ 2 * (d * NearestStep(d, r) - Steps * r) <= d
         /\ 2 * (Steps * r - d * NearestStep(d, r)) < d
<1>1. CASE d = EvenHeight
  BY <1>1 DEF NearestStep, Steps, EvenHeight
<1>2. CASE d = OddHeight
  BY <1>2 DEF NearestStep, Steps, OddHeight
<1> QED
  BY <1>1, <1>2

(***************************************************************************)
(* The latitude the longitude zones are taken from is within half a step   *)
(* of the aircraft's, except in the last half step below a zone's edge:    *)
(* there the mask takes YZ to 0 but not the zone to the next, and Rlat is  *)
(* a whole zone too low.                                                   *)
(***************************************************************************)
THEOREM RlatNearButAtTheEdge ==
  ASSUME NEW d \in {EvenHeight, OddHeight}, NEW lat \in Int
  PROVE  LET gap == Steps * lat - Rlat(d, lat)
             edge == NearestStep(d, lat % d) = Steps
         IN  /\ ~edge => 2 * gap <= d /\ -d <= 2 * gap
             /\ edge => YZ(d, lat) = 0 /\ 2 * gap >= 2 * d * Steps - d
<1> DEFINE r == lat % d
           z == lat \div d
           k == NearestStep(d, r)
<1>1. d \in Nat /\ 0 < d
  BY DEF EvenHeight, OddHeight
<1>2. r \in Nat /\ r < d /\ z \in Int /\ lat = d * z + r
  BY <1>1 DEF EvenHeight, OddHeight
<1>3. /\ k \in Nat /\ k <= Steps
      /\ 2 * (d * k - Steps * r) <= d
      /\ 2 * (Steps * r - d * k) < d
  BY <1>2, NearestStepIsNear
<1> HIDE DEF r, z, k
<1>4. Steps * lat = d * Steps * z + Steps * r
  BY <1>1, <1>2 DEF Steps
<1>5. CASE k = Steps
  <2>1. k % Steps = 0
    BY <1>5 DEF Steps
  <2>2. Rlat(d, lat) = d * Steps * z
    BY <1>1, <1>2, <2>1 DEF Rlat, YZ, Zone, r, z, k, Steps
  <2> QED
    BY <1>1, <1>2, <1>3, <1>4, <1>5, <2>1, <2>2 DEF YZ, r, k, Steps
<1>6. CASE k # Steps
  <2>1. k % Steps = k
    BY <1>3, <1>6 DEF Steps
  <2>2. Rlat(d, lat) = d * k + d * Steps * z
    BY <2>1 DEF Rlat, YZ, Zone, r, z, k
  <2> QED
    BY <1>1, <1>2, <1>3, <1>4, <1>6, <2>2 DEF r, k, Steps
<1> QED
  BY <1>5, <1>6

(***************************************************************************)
(* The fields of a position message do not overlap: each reads back.       *)
(***************************************************************************)
THEOREM FieldsApart ==
  ASSUME NEW alt \in Nat, alt < 4096, NEW odd \in {0, 1},
         NEW yz \in Nat, yz < Steps, NEW xz \in Nat, xz < Steps
  PROVE  LET me == Position(alt, odd, yz, xz)
         IN  /\ TypeCode(me) = 11
             /\ AltOf(me) = alt
             /\ OddOf(me) = odd
             /\ YzOf(me) = yz
             /\ XzOf(me) = xz
<1> DEFINE top == (11 * 32768 + alt) * 4 + odd
           me == Position(alt, odd, yz, xz)
<1>1. top \in Nat /\ me = top * (131072 * 131072) + yz * 131072 + xz
  BY DEF Position, Steps
<1> HIDE DEF me
<1>2. /\ me \div (131072 * 131072) = top
      /\ me \div 131072 = top * 131072 + yz
      /\ me % 131072 = xz
  BY <1>1 DEF Steps
<1>3. (me \div 131072) % 131072 = yz
  BY <1>1, <1>2 DEF Steps
<1>4. top \div 131072 = 11 /\ (top \div 4) % 4096 = alt /\ top % 2 = odd
  OBVIOUS
<1> QED
  BY <1>2, <1>3, <1>4 DEF TypeCode, AltOf, OddOf, YzOf, XzOf, Steps, me

-------------------------------------------------------------------------------
(***************************************************************************)
(* The flight data processor's weather proxy, for any number of request    *)
(* threads, any cache time, however slow the host and for any number of    *)
(* outages.                                                                *)
(***************************************************************************)

(***************************************************************************)
(* The weather of a request that has a METAR in hand: it is as old as the  *)
(* rest of its fetch and the TAF's, two of the slowest when it is stored.  *)
(***************************************************************************)
InHand(r) ==
  /\ pc[r] \in {"reading", "taf", "store", "stamp"} => out[r].weather \in Weather
  /\ pc[r] = "reading" => out[r].weather.metar <= waited[r]
  /\ pc[r] = "taf" => out[r].weather.metar <= slowest + waited[r]
  /\ pc[r] \in {"store", "stamp"} => out[r].weather.metar <= 2 * slowest

(***************************************************************************)
(* The cached weather is at most two fetches older than the cache's time   *)
(* stamp says, and no time passes between a store and its stamp, whichever *)
(* request's weather meets whichever request's stamp.                      *)
(***************************************************************************)
CacheIsAsStamped ==
  /\ data # None => data.metar <= t + 2 * slowest
  /\ \A r \in Requests : pc[r] = "stamp" => data # None /\ data.metar <= 2 * slowest

(***************************************************************************)
(* No request waits longer than the slowest has.                           *)
(***************************************************************************)
WaitsAreCounted == \A r \in Requests : waited[r] <= slowest

(***************************************************************************)
(* A request that is about to serve the cache serves recent weather, and   *)
(* one that began by flagging its reply knew of weather to serve.          *)
(***************************************************************************)
ServesRecent ==
  \A r \in Requests :
    /\ pc[r] = "compare" => data # None
    /\ pc[r] = "serve" => data # None /\ data.metar < CacheFor + 2 * slowest
    /\ pc[r] \in {"metar", "reading"} /\ out[r].stale => data # None

WeatherInv ==
  /\ TypeOK
  /\ WaitsAreCounted
  /\ \A r \in Requests : InHand(r)
  /\ CacheIsAsStamped
  /\ ServesRecent
  /\ FreshMeansRecent
  /\ BlankOnlyAtFirst

LEMMA OldFacts ==
  /\ CacheFor \in Nat \ {0} /\ MaxFetch \in Nat \ {0}
  /\ Old \in Nat /\ Old = CacheFor + 2 * MaxFetch
  /\ Ages \subseteq Nat
  BY TimeAssumption, BoundAssumption DEF Old, Ages

(***************************************************************************)
(* A tick makes every age one older, up to Old.                            *)
(***************************************************************************)
LEMMA OlderFacts ==
  ASSUME NEW age \in Ages
  PROVE  /\ Older(age) \in Ages
         /\ Older(age) <= age + 1
  BY OldFacts DEF Ages, Older

LEMMA OldTogether ==
  ASSUME NEW age \in Ages, NEW since \in Ages, NEW k \in Nat, age <= since + k
  PROVE  Older(age) <= Older(since) + k
  BY OldFacts DEF Ages, Older

LEMMA AgedFacts ==
  ASSUME NEW weather \in Weather
  PROVE  /\ Aged(weather) \in Weather /\ Aged(weather) # None
         /\ Aged(weather).metar = Older(weather.metar) /\ weather.metar \in Ages
  BY NoneAssumption, OlderFacts DEF Aged, Weather

LEMMA RequestTypes ==
  ASSUME TypeOK, NEW r \in Requests
  PROVE  /\ pc[r] \in {"idle", "check", "compare", "serve", "miss", "store",
                       "stamp", "replied"} \cup Fetching
         /\ now[r] \in Ages /\ waited[r] \in 0 .. MaxFetch
         /\ out[r].weather \in Weather \cup {None} /\ out[r].stale \in BOOLEAN
         /\ out[r] = [weather |-> out[r].weather, stale |-> out[r].stale]
         /\ out[r].weather \in Weather => out[r].weather.metar \in Ages
  BY DEF TypeOK, Weather

LEMMA SlowestType == TypeOK => slowest \in Nat /\ slowest <= MaxFetch
  BY OldFacts DEF TypeOK

LEMMA DataTypes ==
  ASSUME TypeOK, data # None PROVE data \in Weather /\ data.metar \in Ages /\ data.taf \in BOOLEAN
  BY DEF TypeOK, Weather

(***************************************************************************)
(* A request's own steps take no time.                                     *)
(***************************************************************************)
LEMMA StepTakesNoTime ==
  ASSUME TypeOK, NEW q \in Requests, Step(q)
  PROVE  /\ slowest' = slowest
         /\ waited' = waited \/ waited' = [waited EXCEPT ![q] = 0]
  BY DEF Step, Begin, Check, Compare, Serve, Miss, HostAnswers, MetarArrives, MetarFails,
         TafArrives, TafFails, Store, Stamp, Return, feed

(***************************************************************************)
(* A step of one request leaves the others where they are.                 *)
(***************************************************************************)
LEMMA RequestStepType ==
  ASSUME TypeOK, NEW q \in Requests, InHand(q), Step(q) PROVE TypeOK'
<1>1. pc' \in [Requests -> {"idle", "check", "compare", "serve", "miss", "store",
                            "stamp", "replied"} \cup Fetching]
  BY DEF Step, Goto, Begin, Check, Compare, Serve, Miss, HostAnswers, MetarArrives, MetarFails,
         TafArrives, TafFails, Store, Stamp, Return, TypeOK, Fetching
<1>2. out' \in [Requests -> [weather : Weather \cup {None}, stale : BOOLEAN]]
  <2>1. CASE Begin(q) \/ Check(q) \/ Compare(q) \/ MetarArrives(q) \/ Stamp(q)
    BY <2>1 DEF Begin, Check, Compare, MetarArrives, Stamp, TypeOK
  <2>2. CASE Serve(q)
    BY <2>2 DEF Serve, Reply, TypeOK
  <2>3. CASE Miss(q)
    BY <2>3 DEF Miss, Reply, TypeOK
  <2>4. CASE HostAnswers(q)
    <3>1. [metar |-> 0, taf |-> FALSE] \in Weather
      BY OldFacts DEF Weather, Ages
    <3> QED
      BY <2>4, <3>1, RequestTypes DEF HostAnswers, Reply, TypeOK
  <2>5. CASE MetarFails(q)
    <3>1. CASE data # None
      <4>1. data \in Weather \cup {None} /\ TRUE \in BOOLEAN
        BY DEF TypeOK
      <4>2. [weather |-> data, stale |-> TRUE] \in [weather : Weather \cup {None}, stale : BOOLEAN]
        BY <4>1, Zenon
      <4>3. out' = [out EXCEPT ![q] = [weather |-> data, stale |-> TRUE]]
        BY <2>5, <3>1, Zenon DEF MetarFails, LastGood, Reply
      <4> QED
        BY <4>2, <4>3, Zenon DEF TypeOK
    <3>2. CASE data = None
      BY <2>5, <3>2, RequestTypes DEF MetarFails, LastGood, Reply, TypeOK
    <3> QED
      BY <3>1, <3>2
  <2>6. CASE TafArrives(q)
    <3>1. [out[q].weather EXCEPT !.taf = TRUE] \in Weather
      BY <2>6 DEF TafArrives, Goto, InHand, Weather
    <3> QED
      BY <2>6, <3>1 DEF TafArrives, TypeOK
  <2>7. CASE TafFails(q)
    <3>1. [out[q].weather EXCEPT !.taf = data # None /\ data.taf] \in Weather
      BY <2>7 DEF TafFails, Goto, InHand, Weather
    <3> QED
      BY <2>7, <3>1 DEF TafFails, TypeOK
  <2>8. CASE Store(q)
    BY <2>8, RequestTypes DEF Store, FlagOf, Reply, TypeOK
  <2>9. CASE Return(q)
    BY <2>9 DEF Return, Reply, TypeOK
  <2> QED
    BY <2>1, <2>2, <2>3, <2>4, <2>5, <2>6, <2>7, <2>8, <2>9 DEF Step
<1>3. data' \in Weather \cup {None} /\ t' \in Ages
  BY RequestTypes DEF Step, Begin, Check, Compare, Serve, Miss, HostAnswers, MetarArrives,
         MetarFails, TafArrives, TafFails, Store, Stamp, Return, Assign, StoreOrder, cache, TypeOK
<1>4. now' \in [Requests -> Ages] /\ waited' \in [Requests -> 0 .. MaxFetch]
  <2>1. now' = now \/ now' = [now EXCEPT ![q] = 0]
    BY DEF Step, Begin, Check, Compare, Serve, Miss, HostAnswers, MetarArrives, MetarFails,
           TafArrives, TafFails, Store, Stamp, Return
  <2>2. waited' = waited \/ waited' = [waited EXCEPT ![q] = 0]
    BY StepTakesNoTime
  <2> QED
    BY <2>1, <2>2, OldFacts DEF TypeOK, Ages
<1>5. cut' \subseteq Requests /\ up' = up /\ outages' = outages /\ slowest' = slowest
  BY DEF Step, Begin, Check, Compare, Serve, Miss, HostAnswers, MetarArrives, MetarFails,
         TafArrives, TafFails, Store, Stamp, Return, TypeOK, feed
<1> QED
  BY <1>1, <1>2, <1>3, <1>4, <1>5 DEF TypeOK

(***************************************************************************)
(* What one request's step does to another: nothing but by the cache.      *)
(***************************************************************************)
LEMMA OthersKeep ==
  ASSUME TypeOK, NEW q \in Requests, Step(q), NEW r \in Requests, r # q
  PROVE  pc'[r] = pc[r] /\ out'[r] = out[r] /\ waited'[r] = waited[r] /\ now'[r] = now[r]
<1>1. pc'[r] = pc[r]
  BY DEF Step, Goto, Begin, Check, Compare, Serve, Miss, HostAnswers, MetarArrives, MetarFails,
         TafArrives, TafFails, Store, Stamp, Return, TypeOK
<1>2. out'[r] = out[r]
  BY DEF Step, Reply, LastGood, Begin, Check, Compare, Serve, Miss, HostAnswers, MetarArrives,
         MetarFails, TafArrives, TafFails, Store, Stamp, Return, TypeOK
<1>3. waited'[r] = waited[r] /\ now'[r] = now[r]
  BY DEF Step, Begin, Check, Compare, Serve, Miss, HostAnswers, MetarArrives, MetarFails,
         TafArrives, TafFails, Store, Stamp, Return, TypeOK
<1> QED
  BY <1>1, <1>2, <1>3

(***************************************************************************)
(* The request itself: the weather it has in hand ages with its fetch.     *)
(***************************************************************************)
LEMMA InHandStep ==
  ASSUME TypeOK, WaitsAreCounted, NEW q \in Requests, InHand(q), Step(q) PROVE InHand(q)'
<1> USE OldFacts DEF InHand, Fetching
<1>0. /\ waited[q] \in 0 .. MaxFetch /\ waited[q] <= slowest
      /\ out[q].weather \in Weather => out[q].weather.metar \in Ages
      /\ slowest \in Nat /\ slowest' = slowest
  BY RequestTypes, SlowestType, StepTakesNoTime DEF WaitsAreCounted
<1> USE <1>0 DEF Ages
<1>1. CASE Begin(q) \/ Check(q) \/ Compare(q) \/ Serve(q) \/ Miss(q) \/ Return(q)
  BY <1>1 DEF Begin, Check, Compare, Serve, Miss, Return, Goto, TypeOK
<1>2. CASE HostAnswers(q)
  <2>1. [metar |-> 0, taf |-> FALSE] \in Weather
    BY DEF Weather, Ages
  <2>2. pc'[q] = "reading" /\ out'[q].weather = [metar |-> 0, taf |-> FALSE] /\ waited'[q] = waited[q]
    BY <1>2 DEF HostAnswers, Goto, Reply, TypeOK
  <2> QED
    BY <2>1, <2>2, [metar |-> 0, taf |-> FALSE].metar = 0
<1>3. CASE MetarArrives(q)
  <2>1. pc[q] = "reading" /\ pc'[q] = "taf" /\ out'[q] = out[q] /\ waited'[q] = 0
    BY <1>3 DEF MetarArrives, Goto, TypeOK
  <2> QED
    BY <2>1
<1>4. CASE MetarFails(q)
  BY <1>4 DEF MetarFails, TypeOK
<1>5. CASE TafArrives(q) \/ TafFails(q)
  <2>1. pc[q] = "taf" /\ pc'[q] = "store" /\ out[q].weather \in Weather
    BY <1>5 DEF TafArrives, TafFails, Goto, TypeOK
  <2>2. PICK taf \in BOOLEAN : out' = [out EXCEPT ![q].weather.taf = taf]
    BY <1>5 DEF TafArrives, TafFails
  <2>3. out'[q].weather \in Weather /\ out'[q].weather.metar = out[q].weather.metar
    BY <2>1, <2>2 DEF Weather, TypeOK
  <2> QED
    BY <2>1, <2>3
<1>6. CASE Store(q)
  <2>1. pc[q] = "store" /\ pc'[q] = "stamp" /\ out'[q].weather = out[q].weather
    BY <1>6 DEF Store, Goto, Reply, TypeOK
  <2> QED
    BY <2>1
<1>7. CASE Stamp(q)
  BY <1>7 DEF Stamp, Goto, TypeOK
<1> QED
  BY <1>1, <1>2, <1>3, <1>4, <1>5, <1>6, <1>7 DEF Step

(***************************************************************************)
(* The cache changes by a store, which brings weather at most two fetches  *)
(* old, or by a stamp; once there, weather stays.                          *)
(***************************************************************************)
LEMMA CacheStep ==
  ASSUME TypeOK, NEW q \in Requests, InHand(q), CacheIsAsStamped, Step(q)
  PROVE  \/ data' = data /\ t' = t /\ pc[q] # "stamp" /\ pc'[q] # "stamp"
         \/ /\ data' \in Weather /\ data'.metar <= 2 * slowest /\ t' = t
            /\ pc[q] = "store" /\ pc'[q] = "stamp"
         \/ /\ data' = data /\ data \in Weather /\ data.metar <= 2 * slowest /\ t' = now[q]
            /\ pc[q] = "stamp" /\ pc'[q] = "replied"
<1>1. CASE Begin(q) \/ Check(q) \/ Compare(q) \/ Serve(q) \/ Miss(q) \/ Return(q)
  BY <1>1 DEF Begin, Check, Compare, Serve, Miss, Return, Goto, cache, TypeOK
<1>2. CASE HostAnswers(q) \/ MetarArrives(q) \/ MetarFails(q) \/ TafArrives(q) \/ TafFails(q)
  BY <1>2 DEF HostAnswers, MetarArrives, MetarFails, TafArrives, TafFails, Goto, cache, TypeOK
<1>3. CASE Store(q)
  BY <1>3 DEF Store, Goto, Assign, StoreOrder, InHand, TypeOK
<1>4. CASE Stamp(q)
  BY <1>4, DataTypes DEF Stamp, Goto, Assign, StoreOrder, CacheIsAsStamped, TypeOK
<1> QED
  BY <1>1, <1>2, <1>3, <1>4 DEF Step

(***************************************************************************)
(* A request's step keeps the invariant: its own part ...                  *)
(***************************************************************************)
LEMMA OwnStep ==
  ASSUME WeatherInv, NEW q \in Requests, Step(q)
  PROVE  /\ pc'[q] = "compare" => data' # None
         /\ pc'[q] = "serve" => data' # None /\ data'.metar < CacheFor + 2 * slowest'
         /\ pc'[q] \in {"metar", "reading"} /\ out'[q].stale => data' # None
         /\ pc'[q] = "replied" /\ ~ out'[q].stale /\ out'[q].weather # None
              => out'[q].weather.metar < CacheFor + 2 * slowest'
         /\ pc'[q] = "replied" /\ out'[q].weather = None => ~ out'[q].stale
<1>0. /\ TypeOK /\ InHand(q) /\ CacheIsAsStamped
      /\ slowest \in Nat /\ slowest' = slowest
      /\ pc[q] = "compare" => data # None
      /\ pc[q] = "serve" => data # None /\ data.metar < CacheFor + 2 * slowest
      /\ pc[q] \in {"metar", "reading"} /\ out[q].stale => data # None
  BY SlowestType, StepTakesNoTime DEF WeatherInv, ServesRecent
<1>00. Requests # {} /\ q \in DOMAIN pc /\ q \in DOMAIN out
  BY <1>0 DEF TypeOK
<1>1. CASE Begin(q) \/ MetarArrives(q) \/ TafArrives(q) \/ TafFails(q) \/ Store(q) \/ Return(q)
  BY <1>0, <1>1 DEF Begin, MetarArrives, TafArrives, TafFails, Store, Return, Goto, TypeOK
<1>2. CASE Check(q)
  BY <1>0, <1>2 DEF Check, Goto, cache, TypeOK
<1>3. CASE Compare(q)
  <2>1. t < CacheFor => data.metar < CacheFor + 2 * slowest
    BY <1>0, <1>3, DataTypes, OldFacts DEF Compare, Goto, CacheIsAsStamped, TypeOK, Ages
  <2> QED
    BY <1>0, <1>3, <2>1 DEF Compare, Goto, cache, TypeOK
<1>4. CASE Serve(q)
  <2>1. pc'[q] = "replied" /\ out'[q].weather = data /\ data # None /\ data.metar < CacheFor + 2 * slowest
    BY <1>0, <1>4 DEF Serve, Goto, Reply, TypeOK
  <2> QED
    BY <1>0, <2>1
<1>5. CASE Miss(q)
  <2>1. pc'[q] = "metar" /\ out'[q].stale = (data # None) /\ data' = data
    BY <1>0, <1>5 DEF Miss, Goto, Reply, cache, TypeOK
  <2> QED
    BY <2>1
<1>6. CASE HostAnswers(q)
  <2>1. pc[q] = "metar" /\ pc'[q] = "reading" /\ out'[q].stale = out[q].stale /\ data' = data
    BY <1>0, <1>6 DEF HostAnswers, Goto, Reply, cache, TypeOK
  <2> QED
    BY <1>0, <2>1
<1>7. CASE MetarFails(q)
  <2>1. pc'[q] = "replied" /\ pc[q] \in {"metar", "reading"}
    BY <1>0, <1>7 DEF MetarFails, TypeOK
  <2>2. CASE data # None
    <3>1. out'[q] = [weather |-> data, stale |-> TRUE]
      BY <1>00, <1>7, <2>2 DEF MetarFails, LastGood, Reply
    <3> QED
      BY <2>1, <2>2, <3>1
  <2>3. CASE data = None
    <3>1. out'[q].weather = None /\ out'[q].stale = out[q].stale
      BY <1>00, <1>7, <2>3 DEF MetarFails, LastGood, Reply
    <3> QED
      BY <1>0, <2>1, <2>3, <3>1
  <2> QED
    BY <2>2, <2>3
<1>8. CASE Stamp(q)
  <2>1. pc[q] = "stamp" /\ pc'[q] = "replied" /\ out' = out
    BY <1>0, <1>8 DEF Stamp, Goto, TypeOK
  <2>2. out[q].weather # None /\ out[q].weather.metar < CacheFor + 2 * slowest
    <3>1. out[q].weather \in Weather /\ out[q].weather.metar <= 2 * slowest
      BY <1>0, <2>1 DEF InHand
    <3>2. out[q].weather.metar \in Nat
      BY <3>1, OldFacts DEF Weather, Ages
    <3> QED
      BY <1>0, <3>1, <3>2, NoneAssumption, OldFacts
  <2> QED
    BY <1>0, <2>1, <2>2
<1> QED
  BY <1>1, <1>2, <1>3, <1>4, <1>5, <1>6, <1>7, <1>8 DEF Step

(***************************************************************************)
(* ... and, by way of the cache, that of the others.                       *)
(***************************************************************************)
LEMMA RequestStep ==
  ASSUME WeatherInv, NEW q \in Requests, Step(q) PROVE WeatherInv'
<1>0. /\ TypeOK /\ WaitsAreCounted /\ CacheIsAsStamped /\ ServesRecent
      /\ FreshMeansRecent /\ BlankOnlyAtFirst
      /\ \A r \in Requests : InHand(r)
      /\ slowest \in Nat /\ slowest' = slowest
  BY SlowestType, StepTakesNoTime DEF WeatherInv
<1>1. TypeOK'
  BY <1>0, RequestStepType
<1>2. ASSUME NEW r \in Requests, r # q
      PROVE  pc'[r] = pc[r] /\ out'[r] = out[r] /\ waited'[r] = waited[r] /\ now'[r] = now[r]
  BY <1>0, <1>2, OthersKeep
<1>3. \A r \in Requests : InHand(r)'
  <2> TAKE r \in Requests
  <2>1. CASE r = q
    BY <1>0, <2>1, InHandStep
  <2>2. CASE r # q
    BY <1>0, <1>2, <2>2 DEF InHand
  <2> QED
    BY <2>1, <2>2
<1>8. WaitsAreCounted'
  <2>1. waited' = waited \/ waited' = [waited EXCEPT ![q] = 0]
    BY <1>0, StepTakesNoTime
  <2> QED
    BY <1>0, <2>1 DEF WaitsAreCounted, TypeOK
<1>4. data # None => data' # None
  BY <1>0, CacheStep, NoneAssumption
<1>5. CacheIsAsStamped'
  <2>1. CASE data' = data /\ t' = t /\ pc[q] # "stamp" /\ pc'[q] # "stamp"
    BY <1>0, <1>2, <2>1 DEF CacheIsAsStamped
  <2>2. CASE data' \in Weather /\ data'.metar <= 2 * slowest /\ t' = t
    <3>1. data' # None /\ data'.metar <= t + 2 * slowest
      BY <1>0, <2>2, NoneAssumption, OldFacts DEF TypeOK, Ages, Weather
    <3> QED
      BY <1>0, <2>2, <3>1 DEF CacheIsAsStamped
  <2>3. CASE data' = data /\ data \in Weather /\ data.metar <= 2 * slowest /\ t' = now[q]
    <3>1. data' # None /\ data'.metar <= now[q] + 2 * slowest
      <4>1. now[q] \in Nat /\ data.metar \in Nat
        <5>1. now[q] \in Ages
          BY <1>0, RequestTypes
        <5>2. data.metar \in Ages
          BY <2>3 DEF Weather
        <5> QED
          BY <5>1, <5>2, OldFacts
      <4> QED
        BY <1>0, <2>3, <4>1, NoneAssumption, OldFacts
    <3> QED
      BY <1>0, <2>3, <3>1 DEF CacheIsAsStamped
  <2> QED
    BY <1>0, <2>1, <2>2, <2>3, CacheStep
<1>6. ServesRecent'
  <2>1. data.metar < CacheFor + 2 * slowest => data' = data \/ data'.metar < CacheFor + 2 * slowest'
    <3>1. data' \in Weather /\ data'.metar <= 2 * slowest => data'.metar < CacheFor + 2 * slowest'
      BY <1>0, OldFacts DEF Weather, Ages
    <3> QED
      BY <1>0, <3>1, CacheStep
  <2>2. ASSUME NEW r \in Requests
        PROVE  /\ pc'[r] = "compare" => data' # None
               /\ pc'[r] = "serve" => data' # None /\ data'.metar < CacheFor + 2 * slowest'
               /\ pc'[r] \in {"metar", "reading"} /\ out'[r].stale => data' # None
    <3>1. CASE r = q
      BY <3>1, OwnStep
    <3>2. CASE r # q
      BY <1>0, <1>2, <1>4, <2>1, <3>2 DEF ServesRecent
    <3> QED
      BY <3>1, <3>2
  <2> QED
    BY <2>2 DEF ServesRecent
<1>7. FreshMeansRecent' /\ BlankOnlyAtFirst'
  <2>1. ASSUME NEW r \in Requests
        PROVE  /\ pc'[r] = "replied" /\ ~ out'[r].stale /\ out'[r].weather # None
                    => out'[r].weather.metar < CacheFor + 2 * slowest'
               /\ pc'[r] = "replied" /\ out'[r].weather = None => ~ out'[r].stale
    <3>1. CASE r = q
      BY <3>1, OwnStep
    <3>2. CASE r # q
      BY <1>0, <1>2, <3>2 DEF FreshMeansRecent, Recent, BlankOnlyAtFirst, Replied
    <3> QED
      BY <3>1, <3>2
  <2> QED
    BY <2>1 DEF FreshMeansRecent, Recent, BlankOnlyAtFirst, Replied
<1> QED
  BY <1>1, <1>3, <1>5, <1>6, <1>7, <1>8 DEF WeatherInv

(***************************************************************************)
(* While time passes weather and stamp age alike, and so do a METAR in     *)
(* hand and the time its request has waited.                               *)
(***************************************************************************)
LEMMA TickStep ==
  ASSUME WeatherInv, Tick PROVE WeatherInv'
<1>0. /\ TypeOK /\ WaitsAreCounted /\ CacheIsAsStamped /\ ServesRecent
      /\ \A r \in Requests : InHand(r)
  BY DEF WeatherInv
<1>1. pc' = pc /\ data' = Aged(data) /\ t' = Older(t)
  BY DEF Tick
<1>2. ASSUME NEW weather \in Weather \cup {None}
      PROVE  /\ Aged(weather) \in Weather \cup {None}
             /\ Aged(weather) = None <=> weather = None
             /\ weather # None => Aged(weather).metar = Older(weather.metar)
  <2>1. CASE weather = None
    BY <2>1 DEF Aged
  <2>2. CASE weather # None
    BY <2>2, AgedFacts
  <2> QED
    BY <2>1, <2>2
<1>3. ASSUME NEW r \in Requests
      PROVE  /\ pc[r] = "idle" \/ (pc[r] \in Fetching /\ waited[r] < MaxFetch)
             /\ out'[r].weather = Aged(out[r].weather) /\ out'[r].stale = out[r].stale
             /\ out'[r] \in [weather : Weather \cup {None}, stale : BOOLEAN]
             /\ waited'[r] = IF pc[r] \in Fetching THEN waited[r] + 1 ELSE 0
  <2>1. pc[r] = "idle" \/ (pc[r] \in Fetching /\ waited[r] < MaxFetch)
    BY DEF Tick
  <2>2. out'[r] = [out[r] EXCEPT !.weather = Aged(@)]
    BY DEF Tick
  <2>3. out[r] \in [weather : Weather \cup {None}, stale : BOOLEAN]
    BY <1>0 DEF TypeOK
  <2>4. Aged(out[r].weather) \in Weather \cup {None}
    BY <1>2, <2>3
  <2>5. waited'[r] = IF pc[r] \in Fetching THEN waited[r] + 1 ELSE 0
    BY DEF Tick
  <2> QED
    BY <2>1, <2>2, <2>3, <2>4, <2>5
<1>9. /\ slowest \in Nat /\ slowest' \in 0 .. MaxFetch /\ slowest <= slowest'
      /\ \A r \in Requests : waited'[r] <= slowest'
  <2>1. ASSUME NEW r \in Requests
        PROVE  waited'[r] \in Nat /\ waited'[r] <= MaxFetch /\ waited'[r] <= slowest + 1
    <3>1. waited[r] \in 0 .. MaxFetch /\ waited[r] <= slowest /\ slowest \in Nat
      BY <1>0, SlowestType DEF TypeOK, WaitsAreCounted
    <3>2. (waited'[r] = waited[r] + 1 /\ waited[r] < MaxFetch) \/ waited'[r] = 0
      BY <1>3 DEF Fetching
    <3> QED
      BY <3>1, <3>2, OldFacts
  <2>2. slowest' = IF \E r \in Requests : waited'[r] > slowest THEN slowest + 1 ELSE slowest
    BY DEF Tick
  <2>3. slowest \in Nat /\ slowest <= MaxFetch
    BY <1>0, SlowestType
  <2>4. CASE \E r \in Requests : waited'[r] > slowest
    <3>1. PICK r \in Requests : waited'[r] > slowest
      BY <2>4
    <3>2. slowest' = slowest + 1 /\ slowest + 1 <= MaxFetch
      BY <2>1, <2>2, <2>3, <2>4, <3>1, OldFacts
    <3> QED
      BY <2>1, <2>3, <3>2, OldFacts
  <2>5. CASE ~ \E r \in Requests : waited'[r] > slowest
    BY <2>1, <2>2, <2>3, <2>5, OldFacts
  <2> QED
    BY <2>4, <2>5
<1>4. TypeOK'
  <2>1. data' \in Weather \cup {None} /\ t' \in Ages
    BY <1>0, <1>1, <1>2, OlderFacts DEF TypeOK
  <2>2. out' \in [Requests -> [weather : Weather \cup {None}, stale : BOOLEAN]]
    BY <1>3 DEF Tick
  <2>3. now' \in [Requests -> Ages]
    <3>1. \A r \in Requests : Older(now[r]) \in Ages
      BY <1>0, OlderFacts DEF TypeOK
    <3> QED
      BY <3>1, OldFacts DEF Tick, Ages
  <2>4. waited' \in [Requests -> 0 .. MaxFetch]
    <3>1. \A r \in Requests : waited'[r] \in 0 .. MaxFetch
      <4> TAKE r \in Requests
      <4>1. waited[r] \in 0 .. MaxFetch
        BY <1>0 DEF TypeOK
      <4>2. (waited'[r] = waited[r] + 1 /\ waited[r] < MaxFetch) \/ waited'[r] = 0
        BY <1>3 DEF Fetching
      <4> QED
        BY <4>1, <4>2, OldFacts
    <3> QED
      BY <3>1 DEF Tick
  <2> QED
    BY <1>0, <1>1, <1>9, <2>1, <2>2, <2>3, <2>4 DEF Tick, TypeOK
<1>5. ASSUME NEW r \in Requests PROVE InHand(r)'
  <2>1. CASE pc[r] \in {"reading", "taf"}
    <3>1. out[r].weather \in Weather /\ out[r].weather.metar \in Ages /\ waited[r] \in Nat
      <4>1. out[r].weather \in Weather /\ waited[r] \in 0 .. MaxFetch
        BY <1>0, <2>1 DEF InHand, TypeOK
      <4> QED
        BY <4>1, OldFacts DEF Weather
    <3>2. /\ out'[r].weather \in Weather
          /\ out'[r].weather.metar \in Nat /\ out[r].weather.metar \in Nat
          /\ out'[r].weather.metar <= out[r].weather.metar + 1
      <4>1. out'[r].weather = Aged(out[r].weather)
        BY <1>3
      <4>2. /\ Aged(out[r].weather) \in Weather
            /\ Aged(out[r].weather).metar = Older(out[r].weather.metar)
        BY <3>1, AgedFacts
      <4>3. /\ Older(out[r].weather.metar) \in Ages
            /\ Older(out[r].weather.metar) <= out[r].weather.metar + 1
        BY <3>1, OlderFacts
      <4> QED
        BY <3>1, <4>1, <4>2, <4>3, OldFacts
    <3>3. waited'[r] = waited[r] + 1
      BY <1>3, <2>1 DEF Fetching
    <3> QED
      BY <1>0, <1>1, <1>9, <2>1, <3>1, <3>2, <3>3, OldFacts DEF InHand
  <2>2. CASE pc[r] \notin {"reading", "taf"}
    BY <1>1, <1>3, <2>2 DEF InHand, Fetching
  <2> QED
    BY <2>1, <2>2
<1>6. CacheIsAsStamped'
  <2>1. data' # None => data'.metar <= t' + 2 * slowest'
    <3>1. SUFFICES ASSUME data # None PROVE data'.metar <= t' + 2 * slowest'
      BY <1>0, <1>1, <1>2 DEF TypeOK
    <3>2. data.metar \in Ages /\ t \in Ages /\ data.metar <= t + 2 * slowest
      BY <1>0, <3>1, DataTypes DEF CacheIsAsStamped, TypeOK
    <3>3. Older(data.metar) <= Older(t) + 2 * slowest
      <4>1. 2 * slowest \in Nat
        BY <1>9
      <4> QED
        BY <3>2, <4>1, OldTogether
    <3>4. data'.metar = Older(data.metar) /\ t' = Older(t)
      BY <1>0, <1>1, <1>2, <3>1 DEF TypeOK
    <3>5. Older(data.metar) \in Nat /\ Older(t) \in Nat
      BY <3>2, OlderFacts, OldFacts
    <3> QED
      BY <1>9, <3>3, <3>4, <3>5, OldFacts
  <2>2. \A r \in Requests : pc'[r] # "stamp"
    BY <1>1, <1>3 DEF Fetching
  <2> QED
    BY <2>1, <2>2 DEF CacheIsAsStamped
<1>7. ServesRecent'
  <2>1. data # None => data' # None
    BY <1>0, <1>1, <1>2 DEF TypeOK
  <2> QED
    BY <1>0, <1>1, <1>3, <2>1 DEF ServesRecent, Fetching
<1>8. FreshMeansRecent' /\ BlankOnlyAtFirst'
  BY <1>1, <1>3 DEF FreshMeansRecent, BlankOnlyAtFirst, Replied, Fetching
<1> QED
  BY <1>4, <1>5, <1>6, <1>7, <1>8, <1>9 DEF WeatherInv, WaitsAreCounted

LEMMA WeatherInvariant == Spec => []WeatherInv
<1>1. Init => WeatherInv
  <2> SUFFICES ASSUME Init PROVE WeatherInv
    OBVIOUS
  <2>1. up \in BOOLEAN /\ [weather |-> None, stale |-> FALSE] \in [weather : Weather \cup {None}, stale : BOOLEAN]
    BY Zenon DEF Init
  <2>2. TypeOK
    BY <2>1, OldFacts, BoundAssumption DEF Init, TypeOK, Ages
  <2> QED
    BY <2>2 DEF Init, WeatherInv, WaitsAreCounted, InHand, CacheIsAsStamped, ServesRecent, FreshMeansRecent,
                BlankOnlyAtFirst, Replied
<1>2. WeatherInv /\ [Next]_vars => WeatherInv'
  <2> SUFFICES ASSUME WeatherInv, [Next]_vars PROVE WeatherInv'
    OBVIOUS
  <2>1. ASSUME NEW q \in Requests, Step(q) PROVE WeatherInv'
    BY <2>1, RequestStep
  <2>2. CASE Tick
    BY <2>2, TickStep
  <2>3. CASE HostGoes \/ HostReturns \/ UNCHANGED vars
    <3>1. UNCHANGED <<data, t, pc, now, out, waited, slowest>>
      BY <2>3 DEF HostGoes, HostReturns, vars, cache, feed
    <3>2. up' \in BOOLEAN
      <4>1. TRUE \in BOOLEAN /\ FALSE \in BOOLEAN
        OBVIOUS
      <4> QED
        BY <2>3, <4>1, Zenon DEF HostGoes, HostReturns, vars, feed, WeatherInv, TypeOK
    <3>3. cut' \subseteq Requests /\ outages' \in 0 .. MaxOutages
      BY <2>3, BoundAssumption DEF HostGoes, HostReturns, vars, feed, WeatherInv, TypeOK
    <3>4. TypeOK'
      BY <3>1, <3>2, <3>3 DEF WeatherInv, TypeOK
    <3> QED
      BY <3>1, <3>4 DEF WeatherInv, WaitsAreCounted, InHand, CacheIsAsStamped, ServesRecent,
                        FreshMeansRecent, Recent, BlankOnlyAtFirst, Replied
  <2> QED
    BY <2>1, <2>2, <2>3 DEF Next
<1> QED
  BY <1>1, <1>2, PTL DEF Spec

(***************************************************************************)
(* _WX, the requests' local variables and the weather host's state keep    *)
(* their types.                                                            *)
(***************************************************************************)
THEOREM ProxyTypeCorrect == Spec => []TypeOK
<1>1. WeatherInv => TypeOK
  BY DEF WeatherInv
<1> QED
  BY <1>1, WeatherInvariant, PTL

(***************************************************************************)
(* Weather not flagged stale is less than the cache time and two of the    *)
(* slowest fetches so far old, however many threads run weather() at once, *)
(* whichever thread's time stamp lands on whichever thread's weather       *)
(* (app.py:243-291), and whatever time the weather host takes to answer,   *)
(* which the code does not bound.                                          *)
(***************************************************************************)
THEOREM FreshIsRecent == Spec => []FreshMeansRecent
<1>1. WeatherInv => FreshMeansRecent
  BY DEF WeatherInv
<1> QED
  BY <1>1, WeatherInvariant, PTL

(***************************************************************************)
(* A reply without weather is never flagged stale: last-good weather is    *)
(* never lost once there is some.                                          *)
(***************************************************************************)
THEOREM BlankIsFirst == Spec => []BlankOnlyAtFirst
<1>1. WeatherInv => BlankOnlyAtFirst
  BY DEF WeatherInv
<1> QED
  BY <1>1, WeatherInvariant, PTL
===============================================================================
