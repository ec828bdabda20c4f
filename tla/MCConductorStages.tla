-------------------------- MODULE MCConductorStages --------------------------
(***************************************************************************)
(* Instances of ConductorStages for TLC.                                   *)
(***************************************************************************)
EXTENDS ConductorStages

CONSTANTS p1, p2, s1, task

OneAndBoth == {<<p1>>, <<p1, p2>>}
=============================================================================
