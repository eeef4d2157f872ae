------------------------- MODULE MCServiceRegistry -------------------------
(***************************************************************************)
(* Model checking of ServiceRegistry: three services with dependency lists *)
(* that include chains, a diamond's two orders, cycles of length two and   *)
(* three and a self-dependency, and two boots.                             *)
(***************************************************************************)
EXTENDS ServiceRegistry

CONSTANTS a, b, c

ServiceMC == {a, b, c}

SingletonMC == {b}

SelfMadeMC == {c}

DepListMC == {<<>>, <<a>>, <<c>>, <<b, c>>}
=============================================================================
