---------------------------- MODULE MCConsensus ----------------------------
(***************************************************************************)
(* Model checking of Consensus: elections of three nodes without events,   *)
(* or, with a node that is silent, the logs and snapshots of the two       *)
(* others, which elect as well.                                            *)
(***************************************************************************)
EXTENDS Consensus, TLC

CONSTANTS n1, n2, n3

NodeMC == {n1, n2, n3}

VARIABLE silent

Of(n) == <<state[n], term[n], votedFor[n], leaderId[n], votes[n], log[n], snapshots[n]>>

MCInit == Init /\ silent \in Node \cup {None}
MCNext ==
  /\ Next /\ UNCHANGED silent
  /\ IF silent = None THEN UNCHANGED storeVars ELSE Of(silent)' = Of(silent)
MCSpec == MCInit /\ [][MCNext]_<<vars, silent>>

Symmetry == Permutations(Node)
=============================================================================
