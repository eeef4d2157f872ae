------------------------------ MODULE MCSwarm ------------------------------
(***************************************************************************)
(* Model checking of Swarm: two workers and up to three sub-tasks, so that *)
(* a worker takes several sub-tasks and sub-tasks outnumber the workers.   *)
(***************************************************************************)
EXTENDS Swarm

CONSTANTS w1, w2

WorkersMC == {w1, w2}
=============================================================================
