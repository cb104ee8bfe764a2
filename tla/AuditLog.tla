------------------------------- MODULE AuditLog -------------------------------
(***************************************************************************)
(* What fuelsim's audit trail promises, abstractly.  Events are recorded   *)
(* in order; from time to time everything recorded since the last time is  *)
(* either stored or lost, as a whole.  Hence each event is stored at most  *)
(* once, in the order of recording, with all of its rows or with none.     *)
(***************************************************************************)
EXTENDS Naturals, Sequences

CONSTANT MaxEvents        \* bound: events recorded in a behaviour

VARIABLES next, pending, stored

vars == <<next, pending, stored>>

Init == next = 1 /\ pending = <<>> /\ stored = <<>>

Record ==
  /\ next <= MaxEvents
  /\ pending' = Append(pending, next)
  /\ next' = next + 1
  /\ UNCHANGED stored

Store ==
  /\ stored' = stored \o pending
  /\ pending' = <<>>
  /\ UNCHANGED next

Lose ==
  /\ pending' = <<>>
  /\ UNCHANGED <<next, stored>>

Next == Record \/ Store \/ Lose

Spec == Init /\ [][Next]_vars

(***************************************************************************)
(* Each event is stored at most once, and in the order of recording: the   *)
(* audit tables never hold an event before one that happened earlier.      *)
(* (state_machine.py:137-179)                                              *)
(***************************************************************************)
Ascending(events) == \A i, j \in DOMAIN events : i < j => events[i] < events[j]

OnceInOrder == Ascending(stored)
===============================================================================
