------------------------------ MODULE MCFuelFarm ------------------------------
(***************************************************************************)
(* Instances of FuelFarm for TLC, with trucks, racks and tanks dealt as    *)
(* build_sorties deals them (truck n: rack 1 if n is odd, tank n mod 3).   *)
(* Three sorties are enough for every hazard of the racks: a and b share   *)
(* rack 1, so one overwrites the other; c uses rack 2 and the same tank as *)
(* a, so two pumps drain one tank.  d is a's truck again, so a sortie may  *)
(* begin before the truck's last one has ended.  The totalizer wraps after *)
(* three gallons; T-101 reaches its low-level switch after two, T-103      *)
(* after one, T-102 starts at it.                                          *)
(***************************************************************************)
EXTENDS FuelFarm

CONSTANTS a, b, c, d

MCSorties == {a, b, c}
MCMoreSorties == {a, b, c, d}
MCTrucks  == {"R-01", "R-03", "R-04"}
MCTruckOf == [s \in Sorties |-> CASE s \in {a, d} -> "R-01" [] s = b -> "R-03" [] s = c -> "R-04"]
MCTankOf  == [s \in Sorties |-> IF s = b THEN 3 ELSE 1]
MCRackOf  == [k \in MCTrucks |-> IF k = "R-04" THEN 2 ELSE 1]
MCInitLevel == <<4, 2, 3>>
===============================================================================
