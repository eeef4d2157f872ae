---------------------------- MODULE StateMachine ----------------------------
(***************************************************************************)
(* The node state machine of agents/state_machine.py.                      *)
(*                                                                         *)
(* The code keeps four Python lists (running, completed, failed,           *)
(* retry_queue) and an append-only execution trace; a node in none of the  *)
(* lists is "pending".  Here the lists are one function from list name to  *)
(* set of nodes: update_node_status removes a node from every list before  *)
(* it adds it to one, so no list ever holds a node twice, and nothing      *)
(* reads the order of a list.                                              *)
(*                                                                         *)
(* Nodes are numbered in the order in which task_graph.py creates them     *)
(* (chr(65), chr(66), ...).                                                *)
(***************************************************************************)
EXTENDS Naturals, Sequences, FiniteSets

CONSTANT MaxSubtasks    \* bound on the sub-tasks one task is split into

ASSUME MaxSubtasksAssumption == MaxSubtasks \in Nat \ {0}

VARIABLES
    lists,    \* running, completed, failed, retry_queue
    trace     \* execution_trace: every transition, oldest first

smVars == <<lists, trace>>

Node == 1 .. MaxSubtasks

ListName == {"running", "completed", "failed", "retry_queue"}

Status == ListName \cup {"pending"}

TraceEntry == [node : Node, from : Status, to : Status]

Listed(n) == {s \in ListName : n \in lists[s]}

GetNodeStatus(n) ==
    IF Listed(n) = {} THEN "pending" ELSE CHOOSE s \in Listed(n) : TRUE

\* Mutant of ListFor: a node whose retries are used up is queued once more.
ListForOneRetryMore(new, retryCount) ==
    IF new = "failed" /\ retryCount <= 2 THEN "retry_queue" ELSE new

\* The list a status sends a node to: FAILED with retries left goes back to
\* the retry queue.  The 2 is update_node_status's own literal.
ListFor(new, retryCount) ==
    IF new = "failed" /\ retryCount < 2 THEN "retry_queue" ELSE new

UpdateNodeStatus(n, new, retryCount) ==
    /\ trace' = Append(trace, [node |-> n, from |-> GetNodeStatus(n), to |-> new])
    /\ lists' = [s \in ListName |->
                   IF s = ListFor(new, retryCount)
                   THEN lists[s] \cup {n}
                   ELSE lists[s] \ {n}]

\* get_ready_nodes over a graph, given by the dependencies of each node.  A
\* node in failed or retry_queue is ready again.
ReadyNodes(deps) ==
    {n \in DOMAIN deps : /\ n \notin lists["completed"] \cup lists["running"]
                         /\ deps[n] \subseteq lists["completed"]}

IsAllDone ==
    /\ lists["running"] = {}
    /\ lists["retry_queue"] = {}
    /\ lists["completed"] \cup lists["failed"] # {}

IsFailureTerminal ==
    /\ lists["retry_queue"] = {}
    /\ lists["running"] = {}
    /\ lists["failed"] # {}

SMInit ==
    /\ lists = [s \in ListName |-> {}]
    /\ trace = <<>>

SMTypeOK ==
    /\ lists \in [ListName -> SUBSET Node]
    /\ trace \in Seq(TraceEntry)

=============================================================================
