---------------------------- MODULE DoltServer ----------------------------
(***************************************************************************)
(* The part of a Dolt sql-server that the operator relies on: its cluster  *)
(* role, its configuration epoch and the answers of the two stored         *)
(* procedures that change them.  Dolt itself is not part of this           *)
(* repository; these operators are what pkg/dolt/sql expects of it.        *)
(***************************************************************************)
EXTENDS Naturals

Role == {"primary", "standby"}

(***************************************************************************)
(* CALL DOLT_ASSUME_CLUSTER_ROLE(r, e) on a server in role `role' at       *)
(* `epoch': accepted at a later epoch, and, as a no-op, when it repeats    *)
(* what the server already is.  Any other call is refused and changes      *)
(* nothing.                                                                *)
(***************************************************************************)
AcceptsRole(role, epoch, r, e) ==
  \/ e > epoch
  \/ e = epoch /\ r = role

(***************************************************************************)
(* CALL DOLT_CLUSTER_TRANSITION_TO_STANDBY(e, 1) on a primary: accepted at *)
(* a later epoch, once at least one standby is caught up.                  *)
(***************************************************************************)
AcceptsTransition(role, epoch, e, caughtUp) ==
  /\ role = "primary"
  /\ e > epoch
  /\ caughtUp # {}
===========================================================================
