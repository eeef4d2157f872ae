--------------------------- MODULE MCControlPlane ---------------------------
(***************************************************************************)
(* Model checking of ControlPlane: three nodes with ranks so close that    *)
(* the load decides who leads, and callers who name a task or number one.  *)
(***************************************************************************)
EXTENDS ControlPlane, TLC

CONSTANTS n1, n2, n3, j1

NodesMC == {n1, n2, n3}
JobIdsMC == {j1, 1}

RankMC == (n1 :> 5) @@ (n2 :> 15) @@ (n3 :> 15)
=============================================================================
