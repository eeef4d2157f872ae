------------------------------ MODULE TaskDag ------------------------------
(***************************************************************************)
(* What the orchestration loop promises about a chain of sub-tasks,        *)
(* without retries, modes, iterations or lists: a sub-task is settled at   *)
(* most once, only after the sub-task before it is done, and nothing is    *)
(* settled any more once a sub-task has failed.                            *)
(***************************************************************************)
EXTENDS Naturals

CONSTANT N    \* number of sub-tasks there may be

VARIABLE outcome

Task == 1 .. N

DagInit == outcome = [t \in Task |-> "open"]

Settle(t, verdict) ==
    /\ outcome[t] = "open"
    /\ t > 1 => outcome[t - 1] = "done"
    /\ \A u \in Task : outcome[u] # "failed"
    /\ outcome' = [outcome EXCEPT ![t] = verdict]

DagNext == \E t \in Task, verdict \in {"done", "failed"} : Settle(t, verdict)

DagSpec == DagInit /\ [][DagNext]_outcome

=============================================================================
