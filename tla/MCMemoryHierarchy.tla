------------------------- MODULE MCMemoryHierarchy -------------------------
(***************************************************************************)
(* Model checking of MemoryHierarchy: two keys whose hashes collide, a     *)
(* value of half the budget, one that exceeds it, and a chunk file of up   *)
(* to two lines.                                                           *)
(***************************************************************************)
EXTENDS MemoryHierarchy

CONSTANTS k1, k2, small, large, file

KeyMC == {k1, k2}
ValueMC == {small, large}
SizeMC == [v \in ValueMC |-> IF v = small THEN 1 ELSE 3]
ChunkMC == {file}
ChunkOfMC == [k \in KeyMC |-> file]
=============================================================================
