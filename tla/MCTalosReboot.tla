---------------------------- MODULE MCTalosReboot ----------------------------
(* Small clusters for TalosReboot: three control planes and one worker; a   *)
(* replicated PostgreSQL, a replicated MariaDB and a PostgreSQL of one      *)
(* instance.                                                                *)
EXTENDS TalosReboot, TLC

CONSTANTS c1, c2, c3, w1, pg, my, one

Cluster == {c1, c2, c3, w1}
Controls == {c1, c2, c3}
PlanOfThree == <<c1, c2, w1>>
PlanOfTwo == <<c1, w1>>
PlanOfControls == <<c1, c2>>
Placement == (pg :> {c1, w1}) @@ (my :> {c2, w1}) @@ (one :> {w1})
SmallPlacement == (my :> {c1, w1}) @@ (one :> {w1})
=============================================================================
