----------------------------- MODULE MCLogistics ------------------------------
(***************************************************************************)
(* Instances of Logistics for TLC.  a and b share a truck, so deliveries   *)
(* and loads of one truck can overlap; c's truck shares their rack, so a   *)
(* load can be overwritten by another truck's.                             *)
(***************************************************************************)
EXTENDS Logistics

CONSTANTS a, b, c

MCSorties == {a, b, c}
MCTrucks  == {"R-01", "R-03"}
MCTruckOf == [s \in MCSorties |-> IF s = c THEN "R-03" ELSE "R-01"]
MCRackOf  == [k \in MCTrucks |-> 1]
===============================================================================
