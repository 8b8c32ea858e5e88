------------------------ MODULE MCMaterialization ------------------------
(* Instances of Materialization for TLC.                                   *)
EXTENDS Materialization

CONSTANTS s1, s2, e1
=============================================================================
