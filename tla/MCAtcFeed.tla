------------------------------- MODULE MCAtcFeed -------------------------------
(***************************************************************************)
(* Two clients on the Beast port, so that one follows the other in the     *)
(* list, and one on the SBS port.                                          *)
(***************************************************************************)
EXTENDS AtcFeed

CONSTANTS b1, b2, s1

MCClients == {b1, b2, s1}
MCPortOf  == [c \in MCClients |-> IF c = s1 THEN "sbs" ELSE "beast"]
===============================================================================
