---------------------------- MODULE Orchestrator ----------------------------
(***************************************************************************)
(* TAAROrchestrator.run (agents/orchestrator.py) over the task graph of    *)
(* agents/task_graph.py and the state machine of agents/state_machine.py.  *)
(*                                                                         *)
(* run() routes the task, splits it into a chain of sub-tasks, and then    *)
(* loops: take the ready nodes, run each through the executor of its mode, *)
(* and record success, retry or failure.  An executor (devops, swarm,      *)
(* single, tool) returns or raises; both are always possible.              *)
(*                                                                         *)
(* _route_node and reroute_node read the text of a sub-task.  The text is  *)
(* abstracted to the pair of modes they return; all twelve pairs occur     *)
(* ("scan runs" is routed to SWARM and rerouted to TOOL, and so on).  No   *)
(* code path assigns ExecutionMode.SKIP, so the skip branch of the loop    *)
(* is left out.                                                            *)
(***************************************************************************)
EXTENDS StateMachine

CONSTANTS
    MaxIterations,   \* orchestrator._max_nodes
    MaxRetries       \* GraphNode.max_retries

ASSUME IterationAssumption == MaxIterations \in Nat \ {0}
ASSUME RetryAssumption == MaxRetries = 2
ASSUME GuardAssumption == MaxIterations >= MaxRetries

VARIABLES
    pc,           \* where run() is
    decision,     \* plan.policy_decision, "none" before routing
    size,         \* number of nodes of the graph, 0 before build_graph
    mode,         \* GraphNode.mode
    reroute,      \* what reroute_node answers for the node's text
    nodeStatus,   \* GraphNode.status
    retries,      \* GraphNode.retry_count
    iteration,    \* loop counter
    ready,        \* ready nodes of this iteration not yet started
    current       \* the node being executed, 0 if none

graphVars == <<size, mode, reroute, nodeStatus, retries>>
loopVars == <<iteration, ready, current>>
vars == <<lists, trace, pc, decision, graphVars, loopVars>>

Graph == 1 .. size

RoutedMode == {"devops", "swarm", "tool", "single"}
ReroutedMode == {"devops", "tool", "single"}

\* Mutant of DependsOn: each sub-task waits for the one before the last.
DependsOnSkips(n) == IF n > 2 THEN {n - 2} ELSE {}

DependsOn(n) == IF n > 1 THEN {n - 1} ELSE {}

\* Mutant of CanRetry: no limit at all.
CanRetryAlways(count) == count >= 0

CanRetry(count) == count < MaxRetries

-----------------------------------------------------------------------------

Init ==
    /\ SMInit
    /\ pc = "route"
    /\ decision = "none"
    /\ size = 0
    /\ mode = <<>> /\ reroute = <<>> /\ nodeStatus = <<>> /\ retries = <<>>
    /\ iteration = 0 /\ ready = {} /\ current = 0

\* ControlPlane.route; a DENY returns before any graph is built.
Route ==
    /\ pc = "route"
    /\ decision' \in {"allow", "degrade", "deny"}
    /\ pc' = IF decision' = "deny" THEN "end" ELSE "build"
    /\ UNCHANGED <<smVars, graphVars, loopVars>>

\* build_graph, the new StateMachine and the loop that marks every node
\* PENDING: one trace entry per node, no list changes.
BuildGraph ==
    /\ pc = "build"
    /\ \E k \in Node :
         /\ size' = k
         /\ mode' \in [1 .. k -> RoutedMode]
         /\ reroute' \in [1 .. k -> ReroutedMode]
         /\ nodeStatus' = [n \in 1 .. k |-> "pending"]
         /\ retries' = [n \in 1 .. k |-> 0]
         /\ trace' = [n \in 1 .. k |-> [node |-> n, from |-> "pending", to |-> "pending"]]
    /\ pc' = "loop"
    /\ UNCHANGED <<lists, decision, loopVars>>

KeepLooping == ~IsAllDone /\ ~IsFailureTerminal /\ iteration < MaxIterations

\* The head of the while loop: take the ready nodes of this iteration.
StartIteration ==
    /\ pc = "loop"
    /\ KeepLooping
    /\ iteration' = iteration + 1
    /\ ready' = ReadyNodes([n \in Graph |-> DependsOn(n)])
    /\ pc' = "nodes"
    /\ UNCHANGED <<smVars, decision, graphVars, current>>

\* The while condition is false: aggregate and return.
Finish ==
    /\ pc = "loop"
    /\ ~KeepLooping
    /\ pc' = "end"
    /\ UNCHANGED <<smVars, decision, graphVars, loopVars>>

\* Mutant of EndIteration: stays in the for loop until the retry queue is empty.
EndIterationDrainsRetries ==
    /\ pc = "nodes"
    /\ ready = {}
    /\ pc' = IF lists["retry_queue"] = {} THEN "loop" ELSE "nodes"
    /\ UNCHANGED <<smVars, decision, graphVars, loopVars>>

\* The for loop has gone through its ready nodes.
EndIteration ==
    /\ pc = "nodes"
    /\ ready = {}
    /\ pc' = "loop"
    /\ UNCHANGED <<smVars, decision, graphVars, loopVars>>

\* Mark the next ready node RUNNING and hand it to its executor.
StartNode(n) ==
    /\ pc = "nodes"
    /\ n \in ready
    /\ \A m \in ready : n <= m
    /\ UpdateNodeStatus(n, "running", 0)
    /\ nodeStatus' = [nodeStatus EXCEPT ![n] = "running"]
    /\ ready' = ready \ {n}
    /\ current' = n
    /\ pc' = "executing"
    /\ UNCHANGED <<decision, size, mode, reroute, retries, iteration>>

\* execute_node returns.
NodeCompletes ==
    /\ pc = "executing"
    /\ nodeStatus' = [nodeStatus EXCEPT ![current] = "completed"]
    /\ UpdateNodeStatus(current, "completed", 0)
    /\ current' = 0
    /\ pc' = "nodes"
    /\ UNCHANGED <<decision, size, mode, reroute, retries, iteration, ready>>

\* execute_node raises: count the attempt, then retry in another mode or give up.
NodeRaises ==
    /\ pc = "executing"
    /\ nodeStatus' = [nodeStatus EXCEPT ![current] = "failed"]
    /\ retries' = [retries EXCEPT ![current] = @ + 1]
    /\ IF CanRetry(retries'[current])
       THEN /\ UpdateNodeStatus(current, "retry_queue", retries'[current])
            /\ mode' = [mode EXCEPT ![current] = reroute[current]]
       ELSE /\ UpdateNodeStatus(current, "failed", retries'[current])
            /\ UNCHANGED mode
    /\ current' = 0
    /\ pc' = "nodes"
    /\ UNCHANGED <<decision, size, reroute, iteration, ready>>

\* run() has returned.
Returned == pc = "end" /\ UNCHANGED vars

Next ==
    \/ Route
    \/ BuildGraph
    \/ StartIteration
    \/ Finish
    \/ EndIteration
    \/ \E n \in Node : StartNode(n)
    \/ NodeCompletes
    \/ NodeRaises
    \/ Returned

\* run() is one thread and every executor is bounded by its own timeout
\* (60 s for tools, 120 s for an LLM call, ...), so it always goes on.
Spec == Init /\ [][Next]_vars /\ WF_vars(Next)

-----------------------------------------------------------------------------
(***************************************************************************)
(* Properties                                                              *)
(***************************************************************************)

\* The state of run() is well formed.
TypeOK ==
    /\ SMTypeOK
    /\ pc \in {"route", "build", "loop", "nodes", "executing", "end"}
    /\ decision \in {"none", "allow", "degrade", "deny"}
    /\ size \in 0 .. MaxSubtasks
    /\ mode \in [Graph -> RoutedMode]
    /\ reroute \in [Graph -> ReroutedMode]
    /\ nodeStatus \in [Graph -> Status]
    /\ retries \in [Graph -> 0 .. MaxRetries]
    /\ iteration \in 0 .. MaxIterations
    /\ ready \in SUBSET Graph
    /\ current \in 0 .. size

\* Whatever order attempts, retries and failures come in, a sub-task that has
\* ever been started (it is running, queued for retry, failed or completed)
\* has all the sub-tasks it depends on completed: get_ready_nodes is the only
\* gate, and no later transition takes a dependency back.
DependenciesFirst ==
    \A n \in Graph : GetNodeStatus(n) # "pending" =>
        DependsOn(n) \subseteq lists["completed"]

\* The two records of a node, GraphNode (status and retry_count, what is
\* reported and aggregated) and the lists of the state machine (what the loop
\* decides by), tell the same story: the same nodes are completed, a node
\* waiting for its retry has failed and may be retried, one that is given up
\* has used all its retries, and no node is in two lists.
BooksAgree ==
    /\ \A n \in Graph :
         /\ (nodeStatus[n] = "completed") <=> (n \in lists["completed"])
         /\ (n \in lists["retry_queue"]) <=> (nodeStatus[n] = "failed" /\ CanRetry(retries[n]))
         /\ (n \in lists["failed"]) <=> (nodeStatus[n] = "failed" /\ ~CanRetry(retries[n]))
         /\ \A s, t \in Listed(n) : s = t

\* The loop ends because of what the nodes did and never because the iteration
\* guard cut it short with a retry still queued: the retry limits of the two
\* modules bound the attempts well below MaxIterations.
GuardNeverCutsShort ==
    pc = "end" /\ decision # "deny" => IsAllDone \/ IsFailureTerminal

\* run() returns.
Terminates == <>(pc = "end")

\* The loop implements the abstract chain of sub-tasks.
Verdict(n) ==
    IF n \in lists["completed"] THEN "done"
    ELSE IF n \in lists["failed"] THEN "failed" ELSE "open"

Abstract == INSTANCE TaskDag WITH N <- MaxSubtasks,
                                  outcome <- [n \in Node |-> Verdict(n)]

ImplementsTaskDag == Abstract!DagSpec

\* The class comment says "repeat until all done or terminal failure".
AllDoneOrTerminalFailure ==
    pc = "end" /\ decision # "deny" =>
        Graph \subseteq lists["completed"] \/ lists["failed"] # {}


\* What run() keeps at every step: nothing starts before what it depends on, and
\* the nodes and the lists of the state machine tell the same story.
RunHolds == TypeOK /\ DependenciesFirst /\ BooksAgree
=============================================================================
