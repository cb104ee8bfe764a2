------------------------------- MODULE MCDeploy -------------------------------
(***************************************************************************)
(* Three hosts and three plays in the shape of site.yml: one for all, one  *)
(* for the domain controller alone (whose failure ends the run), one for   *)
(* the rest.                                                               *)
(***************************************************************************)
EXTENDS Deploy

CONSTANTS dc, member, so

MCHosts == {dc, member, so}
MCTargetsOf == <<{dc, member, so}, {dc}, {member, so}>>
===============================================================================
