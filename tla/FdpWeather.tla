------------------------------ MODULE FdpWeather ------------------------------
(***************************************************************************)
(* The flight data processor's weather proxy: /api/weather calls           *)
(* weather(), which serves the cached weather if it is recent, and fetches *)
(* METAR and TAF from the weather host if not.  Flask serves each request  *)
(* in a thread of its own, so two requests run weather() at once over the  *)
(* one dictionary _WX, with no lock.                                       *)
(*                                                                         *)
(* Time is kept as ages: every tick makes all that is remembered one tick  *)
(* older.  It passes only while requests are between calls or wait for the *)
(* weather host: what a thread does in between takes no time.  An access   *)
(* of _WX is one step.  A METAR is known by the moment the weather host    *)
(* made it, a TAF by its being there.                                      *)
(*                                                                         *)
(* Nothing in the code bounds how long a fetch takes: the timeout of       *)
(* urlopen is for each operation on the socket, so an answer that keeps    *)
(* trickling in is waited for.  The model bounds it to stay finite, and    *)
(* its properties speak of the slowest fetch so far.                       *)
(***************************************************************************)
EXTENDS Naturals

CONSTANTS
  Requests,    \* request threads
  CacheFor,    \* ticks a cached reply is served (10 s)
  MaxFetch,    \* bound: ticks a fetch takes
  None,        \* no weather
  MaxOutages   \* bound: outages of the weather host

ASSUME TimeAssumption == CacheFor \in Nat \ {0}

ASSUME BoundAssumption == MaxFetch \in Nat \ {0} /\ MaxOutages \in Nat

(***************************************************************************)
(* What is older than any reply may be counts as Old.                      *)
(***************************************************************************)
Old == CacheFor + 2 * MaxFetch

Ages == 0 .. Old

Weather == [metar : Ages, taf : BOOLEAN]

ASSUME NoneAssumption == None \notin Weather

VARIABLES
  data,     \* _WX["data"]
  t,        \* age of _WX["t"]
  pc,       \* where request r is in weather()
  now,      \* age of r's now
  out,      \* r's out: its weather and its stale flag
  waited,   \* how long r has been waiting for its answer
  slowest,  \* history: the longest any request has waited for one
  cut,      \* requests whose fetch an outage has cut off
  up,       \* is the weather host reachable?
  outages

cache == <<data, t>>
feed  == <<slowest, up, outages>>
vars  == <<cache, pc, now, out, waited, cut, feed>>

Fetching == {"metar", "reading", "taf"}

TypeOK ==
  /\ data \in Weather \cup {None}
  /\ t \in Ages
  /\ pc \in [Requests -> {"idle", "check", "compare", "serve", "miss", "store",
                          "stamp", "replied"} \cup Fetching]
  /\ now \in [Requests -> Ages]
  /\ out \in [Requests -> [weather : Weather \cup {None}, stale : BOOLEAN]]
  /\ waited \in [Requests -> 0 .. MaxFetch]
  /\ slowest \in 0 .. MaxFetch
  /\ cut \subseteq Requests
  /\ up \in BOOLEAN
  /\ outages \in 0 .. MaxOutages

Init ==
  /\ data = None
  /\ t = Old
  /\ pc = [r \in Requests |-> "idle"]
  /\ now = [r \in Requests |-> 0]
  /\ out = [r \in Requests |-> [weather |-> None, stale |-> FALSE]]
  /\ waited = [r \in Requests |-> 0]
  /\ slowest = 0
  /\ cut = {}
  /\ up = TRUE
  /\ outages = 0

-------------------------------------------------------------------------------
Goto(r, from, to) ==
  /\ pc[r] = from
  /\ pc' = [pc EXCEPT ![r] = to]

Reply(r, weather, stale) ==
  out' = [out EXCEPT ![r] = [weather |-> weather, stale |-> stale]]

(***************************************************************************)
(* now = time.time(), and the cached weather if it is recent: _WX is read  *)
(* three times.                                                            *)
(***************************************************************************)
Begin(r) ==
  /\ Goto(r, "idle", "check")
  /\ UNCHANGED <<cache, now, out, waited, cut, feed>>

Check(r) ==
  /\ Goto(r, "check", IF data # None THEN "compare" ELSE "miss")
  /\ UNCHANGED <<cache, now, out, waited, cut, feed>>

Compare(r) ==
  /\ Goto(r, "compare", IF t < CacheFor THEN "serve" ELSE "miss")
  /\ UNCHANGED <<cache, now, out, waited, cut, feed>>

Serve(r) ==
  /\ Goto(r, "serve", "replied")
  /\ Reply(r, data, FALSE)
  /\ UNCHANGED <<cache, now, waited, cut, feed>>

(***************************************************************************)
(* out = {...}: flagged stale from the start if there is weather to serve. *)
(***************************************************************************)
Miss(r) ==
  /\ Goto(r, "miss", "metar")
  /\ Reply(r, None, data # None)
  /\ waited' = [waited EXCEPT ![r] = 0]
  /\ UNCHANGED <<cache, now, cut, feed>>

-------------------------------------------------------------------------------
(***************************************************************************)
(* The weather host makes the METAR while it answers ...                   *)
(***************************************************************************)
HostAnswers(r) ==
  /\ up /\ r \notin cut
  /\ Goto(r, "metar", "reading")
  /\ Reply(r, [metar |-> 0, taf |-> FALSE], out[r].stale)
  /\ UNCHANGED <<cache, now, waited, cut, feed>>

(***************************************************************************)
(* ... and the answer arrives; the TAF is fetched next.                    *)
(***************************************************************************)
MetarArrives(r) ==
  /\ r \notin cut
  /\ Goto(r, "reading", "taf")
  /\ waited' = [waited EXCEPT ![r] = 0]
  /\ UNCHANGED <<cache, now, out, cut, feed>>

(***************************************************************************)
(* No METAR: last-good weather, flagged, or out as it was begun.           *)
(* (OutAlways: out, whatever is known.)                                    *)
(***************************************************************************)
OutAlways(r) == Reply(r, None, out[r].stale)

LastGood(r) ==
  IF data # None THEN Reply(r, data, TRUE) ELSE Reply(r, None, out[r].stale)

MetarFails(r) ==
  /\ ~ up \/ r \in cut
  /\ pc[r] \in {"metar", "reading"}
  /\ pc' = [pc EXCEPT ![r] = "replied"]
  /\ LastGood(r)
  /\ cut' = cut \ {r}
  /\ UNCHANGED <<cache, now, waited, feed>>

TafArrives(r) ==
  /\ up /\ r \notin cut
  /\ Goto(r, "taf", "store")
  /\ out' = [out EXCEPT ![r].weather.taf = TRUE]
  /\ UNCHANGED <<cache, now, waited, cut, feed>>

(***************************************************************************)
(* No TAF: that of the cached weather.                                     *)
(***************************************************************************)
TafFails(r) ==
  /\ ~ up \/ r \in cut
  /\ Goto(r, "taf", "store")
  /\ out' = [out EXCEPT ![r].weather.taf = data # None /\ data.taf]
  /\ cut' = cut \ {r}
  /\ UNCHANGED <<cache, now, waited, feed>>

-------------------------------------------------------------------------------
(***************************************************************************)
(* A complete reply is not stale.  (KeepsFlag: the flag it began with;     *)
(* NoFlag: none.)                                                          *)
(***************************************************************************)
NoFlag(r) == None

KeepsFlag(r) == out[r].stale

FlagOf(r) == FALSE

(***************************************************************************)
(* _WX["data"], _WX["t"] = out, now: two assignments, the data first.      *)
(* (TimeFirst: the other way round.)                                       *)
(***************************************************************************)
TimeFirst == <<"t", "data">>

StoreOrder == <<"data", "t">>

Assign(r, key) ==
  \/ /\ key = "data"
     /\ data' = out[r].weather
     /\ UNCHANGED t
  \/ /\ key = "t"
     /\ t' = now[r]
     /\ UNCHANGED data

Store(r) ==
  /\ Goto(r, "store", "stamp")
  /\ Reply(r, out[r].weather, FlagOf(r))
  /\ Assign(r, StoreOrder[1])
  /\ UNCHANGED <<now, waited, cut, feed>>

Stamp(r) ==
  /\ Goto(r, "stamp", "replied")
  /\ Assign(r, StoreOrder[2])
  /\ UNCHANGED <<now, out, waited, cut, feed>>

(***************************************************************************)
(* The reply is sent and weather()'s variables are gone.                   *)
(***************************************************************************)
Return(r) ==
  /\ Goto(r, "replied", "idle")
  /\ now' = [now EXCEPT ![r] = 0]
  /\ Reply(r, None, FALSE)
  /\ waited' = [waited EXCEPT ![r] = 0]
  /\ UNCHANGED <<cache, cut, feed>>

-------------------------------------------------------------------------------
Older(age) == IF age < Old THEN age + 1 ELSE Old

Aged(weather) ==
  IF weather = None THEN None ELSE [weather EXCEPT !.metar = Older(@)]

(***************************************************************************)
(* Time passes for the requests that fetch.                                *)
(***************************************************************************)
Tick ==
  /\ \A r \in Requests : pc[r] = "idle" \/ (pc[r] \in Fetching /\ waited[r] < MaxFetch)
  /\ data' = Aged(data)
  /\ t' = Older(t)
  /\ now' = [r \in Requests |-> IF pc[r] = "idle" THEN 0 ELSE Older(now[r])]
  /\ out' = [r \in Requests |-> [out[r] EXCEPT !.weather = Aged(@)]]
  /\ waited' = [r \in Requests |-> IF pc[r] \in Fetching THEN waited[r] + 1 ELSE 0]
  /\ slowest' = IF \E r \in Requests : waited'[r] > slowest THEN slowest + 1 ELSE slowest
  /\ UNCHANGED <<pc, cut, up, outages>>

(***************************************************************************)
(* Weather denial: the host becomes unreachable, and is back some time.    *)
(***************************************************************************)
HostGoes ==
  /\ up /\ outages < MaxOutages
  /\ up' = FALSE
  /\ outages' = outages + 1
  /\ cut' = {r \in Requests : pc[r] \in Fetching}
  /\ UNCHANGED <<cache, pc, now, out, waited, slowest>>

HostReturns ==
  /\ ~ up
  /\ up' = TRUE
  /\ UNCHANGED <<cache, pc, now, out, waited, cut, slowest, outages>>

Step(r) ==
  \/ Begin(r) \/ Check(r) \/ Compare(r) \/ Serve(r) \/ Miss(r)
  \/ HostAnswers(r) \/ MetarArrives(r) \/ MetarFails(r) \/ TafArrives(r) \/ TafFails(r)
  \/ Store(r) \/ Stamp(r) \/ Return(r)

Next == (\E r \in Requests : Step(r)) \/ Tick \/ HostGoes \/ HostReturns

Spec == Init /\ [][Next]_vars

(***************************************************************************)
(* The page asks again every 15 s.  That urlopen returns some time is what *)
(* is asked of the weather host: while it is up it ends its answers.       *)
(***************************************************************************)
FairSpec == Spec /\ \A r \in Requests : WF_vars(Step(r))

-------------------------------------------------------------------------------
Replied(r) == pc[r] = "replied"

(***************************************************************************)
(* Weather that is not flagged stale is as recent as the weather host's    *)
(* slowness lets it be: its METAR was made less than the cache time and    *)
(* two of the slowest fetches ago, whatever other requests store meanwhile *)
(* and however their two assignments interleave.                           *)
(***************************************************************************)
Recent(weather) == weather.metar < CacheFor + 2 * slowest

FreshMeansRecent ==
  \A r \in Requests :
    Replied(r) /\ ~ out[r].stale /\ out[r].weather # None => Recent(out[r].weather)

(***************************************************************************)
(* "last-good on failure" (app.py:243): a reply without weather is given   *)
(* only if none was known when its fetch began, and it never pretends to   *)
(* be an old one.                                                          *)
(***************************************************************************)
BlankOnlyAtFirst ==
  \A r \in Requests : Replied(r) /\ out[r].weather = None => ~ out[r].stale

(***************************************************************************)
(* After the last outage the stale flag goes away for good.                *)
(***************************************************************************)
RecoversFromOutage ==
  (<>[]up) => <>[](\A r \in Requests : Replied(r) => ~ out[r].stale)
===============================================================================
