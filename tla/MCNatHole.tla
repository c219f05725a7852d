------------------------------ MODULE MCNatHole ------------------------------
(* NatHoleController on a small instance. *)
EXTENDS NatHoleController, TLC

CONSTANTS c1, n1, p1, p2, v1, v2

OneControl == c1 :> <<"run1", 1>>
==============================================================================
