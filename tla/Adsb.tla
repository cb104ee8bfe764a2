---------------------------------- MODULE Adsb ----------------------------------
(***************************************************************************)
(* The fields of the DF17 messages atc_feed.py sends: altitude, compact    *)
(* position (CPR) and velocity, as the numbers that are packed into the    *)
(* 56-bit ME.  Altitudes are feet, speeds knots; a latitude is an integer  *)
(* in 59ths of a microdegree, in which both zone heights are whole.        *)
(***************************************************************************)
EXTENDS Integers

(***************************************************************************)
(* _encode_alt: 25-foot steps from -1000 in eleven bits, with the Q bit    *)
(* between the upper seven and the lower four; and how it is read.         *)
(***************************************************************************)
EncodeAlt(ft) ==
  LET n == (ft + 1000) \div 25
  IN  ((n \div 16) % 128) * 32 + 16 + (n % 16)

QBit(field) == (field \div 16) % 2

DecodeAlt(field) == 25 * ((field \div 32) * 16 + (field % 16)) - 1000

(***************************************************************************)
(* me_velocity: a rounded component of the speed; 0 is "no information",   *)
(* 1023 is "1022 and more".                                                *)
(***************************************************************************)
SpeedField(v) == IF v + 1 < 1023 THEN v + 1 ELSE 1023

(***************************************************************************)
(* _cpr: a zone's height d is cut in 2^17 steps; YZ is the nearest step,   *)
(* masked to 17 bits.  Rlat, the latitude the longitude zones are taken    *)
(* from, is in units of a step of d (that is, multiplied by Steps).        *)
(***************************************************************************)
Steps == 131072

EvenHeight == 354000000
OddHeight == 360000000

Zone(d, lat) == lat \div d

NearestStep(d, r) == (2 * Steps * r + d) \div (2 * d)

YZ(d, lat) == NearestStep(d, lat % d) % Steps

Rlat(d, lat) == d * YZ(d, lat) + d * Steps * Zone(d, lat)

(***************************************************************************)
(* me_position packs type code 11, altitude, parity and the two positions. *)
(* The fields are put together by |, which adds as long as none overlaps.  *)
(***************************************************************************)
Position(alt, odd, yz, xz) ==
  ((11 * 32768 + alt) * 4 + odd) * Steps * Steps + yz * Steps + xz

TypeCode(me) == (me \div (Steps * Steps)) \div 131072
AltOf(me) == ((me \div (Steps * Steps)) \div 4) % 4096
OddOf(me) == (me \div (Steps * Steps)) % 2
YzOf(me) == (me \div Steps) % Steps
XzOf(me) == me % Steps
===============================================================================
