-------------------------------- MODULE Ledger --------------------------------
(***************************************************************************)
(* What the fuel farm promises its auditors, abstractly: fuel is stored,   *)
(* then metered through a rack, then queued as a load transaction, which   *)
(* is booked; on its way from the meter to the books it may be dropped.    *)
(* Every gallon is in exactly one of these five accounts and only ever     *)
(* moves forward; a restart of the farm fills the tanks anew and drops     *)
(* what was not yet booked.                                                *)
(***************************************************************************)
EXTENDS Integers

CONSTANT Total        \* gallons in the farm at the start

VARIABLES supplied, stored, metered, queued, booked, unbooked

vars == <<supplied, stored, metered, queued, booked, unbooked>>

TypeOK ==
  /\ supplied \in Nat /\ stored \in Nat /\ metered \in Nat
  /\ queued \in Nat /\ booked \in Nat /\ unbooked \in Nat

Init ==
  /\ supplied = Total /\ stored = Total /\ metered = 0
  /\ queued = 0 /\ booked = 0 /\ unbooked = 0

(***************************************************************************)
(* A tick of the pumps moves gallons from the tanks to the meters.         *)
(***************************************************************************)
Dispense ==
  \E gal \in 0 .. stored :
    /\ stored' = stored - gal
    /\ metered' = metered + gal
    /\ UNCHANGED <<supplied, queued, booked, unbooked>>

(***************************************************************************)
(* A load ends: its batch is queued as a load_txn.                         *)
(***************************************************************************)
Submit ==
  \E gal \in 0 .. metered :
    /\ metered' = metered - gal
    /\ queued' = queued + gal
    /\ UNCHANGED <<supplied, stored, booked, unbooked>>

(***************************************************************************)
(* What is queued reaches the database, all of it at once.                 *)
(***************************************************************************)
Book ==
  /\ booked' = booked + queued
  /\ queued' = 0
  /\ UNCHANGED <<supplied, stored, metered, unbooked>>

(***************************************************************************)
(* What is queued is lost instead, all of it at once.                      *)
(***************************************************************************)
Lose ==
  /\ unbooked' = unbooked + queued
  /\ queued' = 0
  /\ UNCHANGED <<supplied, stored, metered, booked>>

(***************************************************************************)
(* A batch counter is reset although its gallons were never queued.        *)
(***************************************************************************)
Drop ==
  \E gal \in 0 .. metered :
    /\ metered' = metered - gal
    /\ unbooked' = unbooked + gal
    /\ UNCHANGED <<supplied, stored, queued, booked>>

(***************************************************************************)
(* A restart: the tanks are full, whatever was not booked never will be.   *)
(***************************************************************************)
Restock ==
  \E gal \in 0 .. Total :
    /\ supplied' = supplied + gal
    /\ stored' = stored + gal
    /\ metered' = 0
    /\ queued' = 0
    /\ unbooked' = unbooked + (metered + queued)
    /\ booked' = booked

Next == Dispense \/ Submit \/ Book \/ Lose \/ Drop \/ Restock

Spec == Init /\ [][Next]_vars

(***************************************************************************)
(* The accounts always add up to what the farm was given                   *)
(* (fuel-farm-build-sheet.md:274, with the dropped loads accounted).       *)
(***************************************************************************)
Balanced == stored + metered + queued + booked + unbooked = supplied
===============================================================================
