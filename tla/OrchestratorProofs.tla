------------------------- MODULE OrchestratorProofs -------------------------
(***************************************************************************)
(* Proofs about Orchestrator, for any number of sub-tasks.                 *)
(*                                                                         *)
(* The inductive invariant IInv adds to the properties what the loop keeps *)
(* up: which node is running (RunningIsCurrent), that a node is started    *)
(* only behind a completed prefix of the chain (Chain), that at most one   *)
(* node is ready at a time (ReadyIsNext) and how many attempts a node has  *)
(* behind it (AttemptsCounted).  GuardNeverReached adds where the loop is  *)
(* in its rounds.                                                          *)
(***************************************************************************)
EXTENDS Orchestrator, TLAPS

\* Every listed node is a node of the graph, and everything before it in the
\* chain is completed.
Chain ==
    \A s \in ListName : \A n \in lists[s] :
        n \in Graph /\ \A m \in Graph : m < n => m \in lists["completed"]

\* The running list holds the node being executed and nothing else.
RunningIsCurrent ==
    /\ pc = "executing" => current \in Graph
    /\ \A n \in Graph : n \in lists["running"] <=> (pc = "executing" /\ n = current)

\* A ready node is the first one that is not completed, and not given up.
ReadyIsNext ==
    /\ pc = "executing" => ready = {}
    /\ \A n \in ready :
         /\ n \notin lists["completed"] \cup lists["failed"]
         /\ \A m \in Graph : m < n => m \in lists["completed"]

\* Untouched nodes have had no attempt, a running one has an attempt left.
AttemptsCounted ==
    \A n \in Graph :
        /\ Listed(n) = {} => retries[n] = 0 /\ nodeStatus[n] = "pending"
        /\ n \in lists["running"] => CanRetry(retries[n]) /\ nodeStatus[n] = "running"

\* Before the graph is built nothing is listed and no node is current.
NothingYet ==
    pc \in {"route", "build"} =>
        /\ size = 0
        /\ ready = {} /\ current = 0
        /\ lists = [s \in ListName |-> {}]

IInv ==
    /\ TypeOK
    /\ BooksAgree
    /\ Chain
    /\ RunningIsCurrent
    /\ ReadyIsNext
    /\ AttemptsCounted
    /\ NothingYet

-----------------------------------------------------------------------------
(***************************************************************************)
(* The state machine                                                       *)
(***************************************************************************)

\* get_node_status answers "pending" exactly for a node in no list, and the
\* name of a list that holds it otherwise.
LEMMA StatusOfNode ==
    ASSUME NEW n
    PROVE  /\ GetNodeStatus(n) \in Status
           /\ GetNodeStatus(n) = "pending" <=> Listed(n) = {}
  BY DEF GetNodeStatus, Listed, Status, ListName

\* update_node_status moves one node to one list and leaves the others alone.
LEMMA UpdateMovesOneNode ==
    ASSUME lists \in [ListName -> SUBSET Node], trace \in Seq(TraceEntry),
           NEW n \in Node, NEW new \in Status, NEW count,
           ListFor(new, count) \in ListName,
           UpdateNodeStatus(n, new, count)
    PROVE  /\ lists' \in [ListName -> SUBSET Node]
           /\ trace' \in Seq(TraceEntry)
           /\ \A s \in ListName, m \in Node :
                m \in lists'[s] <=> IF m = n THEN s = ListFor(new, count) ELSE m \in lists[s]
  <1>1. GetNodeStatus(n) \in Status
    BY StatusOfNode
  <1>2. trace' \in Seq(TraceEntry)
    BY <1>1 DEF UpdateNodeStatus, TraceEntry
  <1>3. lists' \in [ListName -> SUBSET Node]
    BY DEF UpdateNodeStatus
  <1>4. \A s \in ListName, m \in Node :
            m \in lists'[s] <=> IF m = n THEN s = ListFor(new, count) ELSE m \in lists[s]
    BY DEF UpdateNodeStatus
  <1> QED  BY <1>2, <1>3, <1>4

-----------------------------------------------------------------------------
(***************************************************************************)
(* The inductive invariant                                                 *)
(***************************************************************************)

LEMMA InitInvariant == Init => IInv
  <1> SUFFICES ASSUME Init PROVE IInv
    OBVIOUS
  <1> USE DEF Init, SMInit
  <1>1. size = 0 /\ Graph = {}
    BY DEF Graph
  <1>2. SMTypeOK
    BY DEF SMTypeOK
  <1>3. TypeOK
    BY <1>1, <1>2, MaxSubtasksAssumption, IterationAssumption DEF TypeOK
  <1>4. BooksAgree /\ RunningIsCurrent /\ ReadyIsNext /\ AttemptsCounted
    BY <1>1 DEF BooksAgree, RunningIsCurrent, ReadyIsNext, AttemptsCounted
  <1>5. Chain /\ NothingYet
    BY DEF Chain, NothingYet
  <1> QED  BY <1>3, <1>4, <1>5 DEF IInv

\* Steps that leave the lists, the graph and the current node alone keep all
\* of IInv but the type of the loop variables and what is said of ready.
LEMMA BookkeepingStep ==
    ASSUME IInv, TypeOK',
           UNCHANGED <<smVars, graphVars, current>>,
           pc # "executing", pc' # "executing",
           pc' \in {"route", "build"} => pc \in {"route", "build"} /\ ready' = ready,
           ReadyIsNext'
    PROVE  IInv'
  <1> USE DEF IInv, smVars, graphVars
  <1>1. BooksAgree'
    BY DEF BooksAgree, Graph, Listed
  <1>2. Chain'
    BY DEF Chain, Graph
  <1>3. RunningIsCurrent'
    BY DEF RunningIsCurrent, Graph
  <1>4. AttemptsCounted'
    BY DEF AttemptsCounted, Graph, Listed
  <1>5. NothingYet'
    BY DEF NothingYet
  <1> QED  BY <1>1, <1>2, <1>3, <1>4, <1>5

\* When the loop goes on, a node is ready only if everything before it is
\* completed and it has not been given up.
LEMMA ReadyNodesAreNext ==
    ASSUME IInv, pc = "loop", KeepLooping, NEW n \in ReadyNodes([k \in Graph |-> DependsOn(k)])
    PROVE  /\ n \in Graph
           /\ n \notin lists["completed"] \cup lists["failed"]
           /\ \A m \in Graph : m < n => m \in lists["completed"]
  <1>1. n \in Graph /\ n \notin lists["completed"] /\ DependsOn(n) \subseteq lists["completed"]
    BY DEF ReadyNodes, Graph
  <1>2. \A m \in Graph : m < n => m \in lists["completed"]
    <2> SUFFICES ASSUME NEW m \in Graph, m < n PROVE m \in lists["completed"]
      OBVIOUS
    <2>1. n > 1 /\ n - 1 \in Graph
      BY <1>1, MaxSubtasksAssumption DEF Graph, IInv, TypeOK
    <2>4. n - 1 \in lists["completed"]
      BY <1>1, <2>1 DEF DependsOn
    <2>2. CASE m = n - 1
      BY <2>4, <2>2
    <2>3. CASE m < n - 1
      BY <2>1, <2>3, <2>4 DEF IInv, Chain, ListName
    <2> QED  BY <2>2, <2>3, <1>1 DEF Graph, IInv, TypeOK
  <1>3. n \notin lists["failed"]
    <2> SUFFICES ASSUME n \in lists["failed"] PROVE FALSE
      OBVIOUS
    <2>1. lists["running"] = {}
      BY DEF IInv, RunningIsCurrent, Chain, ListName
    <2>2. PICK m \in lists["retry_queue"] : TRUE
      BY <2>1 DEF KeepLooping, IsFailureTerminal
    <2>3. m \in Graph /\ m # n /\ m \notin lists["completed"]
      BY <2>2, <1>1 DEF IInv, BooksAgree, Chain, Listed, ListName
    <2>4. CASE m < n
      BY <2>3, <2>4, <1>2
    <2>5. CASE n < m
      BY <2>2, <2>5, <1>1 DEF IInv, Chain, ListName
    <2> QED  BY <2>3, <2>4, <2>5, <1>1 DEF Graph, IInv, TypeOK
  <1> QED  BY <1>1, <1>2, <1>3

LEMMA RouteStep == IInv /\ Route => IInv'
  <1> SUFFICES ASSUME IInv, Route PROVE IInv'
    OBVIOUS
  <1>1. TypeOK'
    BY DEF Route, IInv, TypeOK, SMTypeOK, Graph, smVars, graphVars, loopVars
  <1>2. ReadyIsNext'
    BY DEF Route, IInv, NothingYet, ReadyIsNext, Graph, smVars, graphVars, loopVars
  <1>3. size = 0 /\ Graph = {} /\ Graph' = {} /\ lists = [s \in ListName |-> {}]
    BY DEF Route, IInv, NothingYet, Graph, graphVars
  <1> QED  BY <1>1, <1>2, <1>3, BookkeepingStep
              DEF Route, smVars, graphVars, loopVars

LEMMA BuildGraphStep == IInv /\ BuildGraph => IInv'
  <1> SUFFICES ASSUME IInv, BuildGraph PROVE IInv'
    OBVIOUS
  <1> USE DEF BuildGraph, loopVars
  <1>1. /\ lists = [s \in ListName |-> {}] /\ lists' = lists
        /\ ready' = {} /\ current' = 0
        /\ pc' = "loop"
    BY DEF IInv, NothingYet
  <1>2. PICK k \in Node :
          /\ size' = k
          /\ mode' \in [1 .. k -> RoutedMode]
          /\ reroute' \in [1 .. k -> ReroutedMode]
          /\ nodeStatus' = [n \in 1 .. k |-> "pending"]
          /\ retries' = [n \in 1 .. k |-> 0]
          /\ trace' = [n \in 1 .. k |-> [node |-> n, from |-> "pending", to |-> "pending"]]
    OBVIOUS
  <1>3. k \in Nat /\ 1 .. k \subseteq Node /\ k \in 0 .. MaxSubtasks
    BY MaxSubtasksAssumption DEF Node
  <1>4. trace' \in Seq(TraceEntry)
    <2>1. \A n \in 1 .. k : [node |-> n, from |-> "pending", to |-> "pending"] \in TraceEntry
      BY <1>3 DEF TraceEntry, Status
    <2>2. trace' \in [1 .. k -> TraceEntry]
      BY <1>2, <2>1
    <2> QED  BY <1>3, <2>2
  <1>5. TypeOK'
    BY <1>1, <1>2, <1>3, <1>4, RetryAssumption
       DEF IInv, TypeOK, SMTypeOK, Graph, Status, ListName
  <1>6. Graph' = 1 .. k
    BY <1>2 DEF Graph
  <1>7. BooksAgree' /\ AttemptsCounted'
    BY <1>1, <1>2, <1>6, RetryAssumption
       DEF BooksAgree, AttemptsCounted, Listed, ListName, CanRetry
  <1>8. Chain' /\ RunningIsCurrent' /\ ReadyIsNext' /\ NothingYet'
    BY <1>1 DEF Chain, RunningIsCurrent, ReadyIsNext, NothingYet, ListName
  <1> QED  BY <1>5, <1>7, <1>8 DEF IInv

LEMMA StartIterationStep == IInv /\ StartIteration => IInv'
  <1> SUFFICES ASSUME IInv, StartIteration PROVE IInv'
    OBVIOUS
  <1>1. \A n \in ready' :
          /\ n \in Graph
          /\ n \notin lists["completed"] \cup lists["failed"]
          /\ \A m \in Graph : m < n => m \in lists["completed"]
    BY ReadyNodesAreNext DEF StartIteration
  <1>2. TypeOK'
    BY <1>1, IterationAssumption
       DEF StartIteration, KeepLooping, IInv, TypeOK, SMTypeOK, Graph, smVars, graphVars
  <1>3. ReadyIsNext'
    BY <1>1 DEF StartIteration, ReadyIsNext, Graph, smVars, graphVars
  <1> QED  BY <1>2, <1>3, BookkeepingStep DEF StartIteration, smVars, graphVars

LEMMA FinishStep == IInv /\ Finish => IInv'
  <1> SUFFICES ASSUME IInv, Finish PROVE IInv'
    OBVIOUS
  <1> USE DEF Finish, smVars, graphVars, loopVars
  <1>1. TypeOK' /\ ReadyIsNext'
    BY DEF IInv, TypeOK, SMTypeOK, Graph, ReadyIsNext
  <1> QED  BY <1>1, BookkeepingStep

LEMMA EndIterationStep == IInv /\ EndIteration => IInv'
  <1> SUFFICES ASSUME IInv, EndIteration PROVE IInv'
    OBVIOUS
  <1> USE DEF EndIteration, smVars, graphVars, loopVars
  <1>1. TypeOK' /\ ReadyIsNext'
    BY DEF IInv, TypeOK, SMTypeOK, Graph, ReadyIsNext
  <1> QED  BY <1>1, BookkeepingStep

-----------------------------------------------------------------------------
(***************************************************************************)
(* The steps that move a node                                              *)
(***************************************************************************)

LEMMA StartNodeStep == ASSUME IInv, NEW n \in Node, StartNode(n) PROVE IInv'
  <1> USE DEF StartNode
  <1>1. /\ n \in Graph /\ n \in Node
        /\ Graph' = Graph
        /\ ListFor("running", 0) = "running"
    BY DEF IInv, TypeOK, Graph, ListFor
  <1>2. /\ lists' \in [ListName -> SUBSET Node]
        /\ trace' \in Seq(TraceEntry)
        /\ \A s \in ListName, m \in Node :
             m \in lists'[s] <=> IF m = n THEN s = "running" ELSE m \in lists[s]
    BY <1>1, UpdateMovesOneNode DEF IInv, TypeOK, SMTypeOK, Status, ListName
  <1>3. Graph \subseteq Node
    BY MaxSubtasksAssumption DEF Graph, Node, IInv, TypeOK
  <1>4. /\ n \notin lists["completed"] \cup lists["failed"]
        /\ \A m \in Graph : m < n => m \in lists["completed"]
        /\ \A m \in ready : m = n
        /\ lists["running"] = {}
    <2>1. /\ n \notin lists["completed"] \cup lists["failed"]
          /\ \A m \in Graph : m < n => m \in lists["completed"]
      BY DEF IInv, ReadyIsNext
    <2>2. \A m \in ready : m = n
      <3> SUFFICES ASSUME NEW m \in ready, m # n PROVE FALSE
        OBVIOUS
      <3>1. m \in Graph /\ n < m
        BY <1>1 DEF IInv, TypeOK, Graph
      <3>2. n \in lists["completed"]
        BY <1>1, <3>1 DEF IInv, ReadyIsNext
      <3> QED  BY <3>2, <2>1
    <2>3. lists["running"] = {}
      BY DEF IInv, RunningIsCurrent, Chain, ListName
    <2> QED  BY <2>1, <2>2, <2>3
  <1>5. CanRetry(retries[n])
    <2>1. CASE Listed(n) = {}
      BY <1>1, <2>1, RetryAssumption DEF IInv, AttemptsCounted, CanRetry
    <2>2. CASE Listed(n) # {}
      BY <1>1, <1>4, <2>2 DEF IInv, BooksAgree, Listed, ListName
    <2> QED  BY <2>1, <2>2
  <1>6. TypeOK'
    BY <1>1, <1>2 DEF IInv, TypeOK, SMTypeOK, Graph, Status, ListName
  <1>7. \A m \in Graph : m # n =>
           /\ Listed(m)' = Listed(m)
           /\ nodeStatus'[m] = nodeStatus[m]
    BY <1>1, <1>2, <1>3 DEF Listed, IInv, TypeOK
  <1>8. Listed(n)' = {"running"} /\ nodeStatus'[n] = "running"
    BY <1>1, <1>2 DEF Listed, IInv, TypeOK, ListName
  <1>9. BooksAgree'
    <2> SUFFICES ASSUME NEW m \in Graph
                 PROVE  /\ (nodeStatus'[m] = "completed") <=> (m \in lists'["completed"])
                        /\ (m \in lists'["retry_queue"])
                             <=> (nodeStatus'[m] = "failed" /\ CanRetry(retries[m]))
                        /\ (m \in lists'["failed"])
                             <=> (nodeStatus'[m] = "failed" /\ ~CanRetry(retries[m]))
                        /\ \A s, t \in Listed(m)' : s = t
      BY <1>1 DEF BooksAgree, CanRetry
    <2>1. CASE m = n
      BY <1>1, <1>2, <1>8, <2>1 DEF ListName
    <2>2. CASE m # n
      BY <1>2, <1>3, <1>7, <2>2 DEF IInv, BooksAgree, ListName
    <2> QED  BY <2>1, <2>2
  <1>10. Chain'
    <2> SUFFICES ASSUME NEW s \in ListName, NEW m \in lists'[s]
                 PROVE  m \in Graph /\ \A k \in Graph : k < m => k \in lists'["completed"]
      BY <1>1 DEF Chain
    <2>1. m \in Node
      BY <1>2
    <2>2. m \in Graph /\ \A k \in Graph : k < m => k \in lists["completed"]
      BY <1>1, <1>2, <1>4, <2>1 DEF IInv, Chain
    <2> QED  BY <1>2, <1>3, <1>4, <2>2 DEF ListName
  <1>11. RunningIsCurrent'
    BY <1>1, <1>2, <1>3, <1>4 DEF RunningIsCurrent, ListName
  <1>12. ReadyIsNext' /\ NothingYet'
    BY <1>4 DEF ReadyIsNext, NothingYet
  <1>13. AttemptsCounted'
    BY <1>1, <1>2, <1>3, <1>4, <1>5, <1>7, <1>8 DEF IInv, AttemptsCounted, CanRetry, ListName
  <1> QED  BY <1>6, <1>9, <1>10, <1>11, <1>12, <1>13 DEF IInv

\* What the two ways for an executor to end have in common: the current node
\* leaves the running list for the list named to.
LEMMA SettlingStep ==
    ASSUME IInv, pc = "executing", NEW n, n = current, pc' = "nodes", current' = 0,
           UNCHANGED <<decision, size, reroute, iteration, ready>>,
           mode' \in [Graph -> RoutedMode],
           NEW to \in {"completed", "retry_queue", "failed"},
           lists' \in [ListName -> SUBSET Node], trace' \in Seq(TraceEntry),
           \A s \in ListName, m \in Node :
             m \in lists'[s] <=> IF m = n THEN s = to ELSE m \in lists[s],
           nodeStatus' = [nodeStatus EXCEPT ![n] =
                            IF to = "completed" THEN "completed" ELSE "failed"],
           retries' \in [Graph -> 0 .. MaxRetries],
           \A m \in Graph : m # n => retries'[m] = retries[m],
           to = "retry_queue" => CanRetry(retries'[n]),
           to = "failed" => ~CanRetry(retries'[n])
    PROVE  IInv'
  <1>1. /\ n \in Graph /\ n \in Node
        /\ Graph' = Graph /\ Graph \subseteq Node
        /\ n \in lists["running"]
    BY MaxSubtasksAssumption DEF IInv, TypeOK, RunningIsCurrent, Graph, Node
  <1>2. TypeOK'
    BY <1>1 DEF IInv, TypeOK, SMTypeOK, Graph, Status, ListName
  <1>3. \A m \in Graph : m # n =>
           /\ Listed(m)' = Listed(m)
           /\ nodeStatus'[m] = nodeStatus[m]
    BY <1>1 DEF Listed, IInv, TypeOK
  <1>4. /\ Listed(n)' = {to}
        /\ nodeStatus'[n] = IF to = "completed" THEN "completed" ELSE "failed"
    BY <1>1 DEF Listed, IInv, TypeOK, ListName
  <1>5. BooksAgree'
    <2> SUFFICES ASSUME NEW m \in Graph
                 PROVE  /\ (nodeStatus'[m] = "completed") <=> (m \in lists'["completed"])
                        /\ (m \in lists'["retry_queue"])
                             <=> (nodeStatus'[m] = "failed" /\ CanRetry(retries'[m]))
                        /\ (m \in lists'["failed"])
                             <=> (nodeStatus'[m] = "failed" /\ ~CanRetry(retries'[m]))
                        /\ \A s, t \in Listed(m)' : s = t
      BY <1>1 DEF BooksAgree, CanRetry
    <2>1. CASE m = n
      BY <1>1, <1>4, <2>1 DEF ListName
    <2>2. CASE m # n
      BY <1>1, <1>3, <2>2 DEF IInv, BooksAgree, ListName, CanRetry
    <2> QED  BY <2>1, <2>2
  <1>6. \A m \in Graph : m \in lists["completed"] => m \in lists'["completed"]
    BY <1>1 DEF IInv, BooksAgree, Listed, ListName
  <1>7. Chain'
    <2> SUFFICES ASSUME NEW s \in ListName, NEW m \in lists'[s]
                 PROVE  m \in Graph /\ \A k \in Graph : k < m => k \in lists'["completed"]
      BY <1>1 DEF Chain
    <2>1. m \in Node
      OBVIOUS
    <2>2. m \in Graph /\ \A k \in Graph : k < m => k \in lists["completed"]
      BY <1>1, <2>1 DEF IInv, Chain, ListName
    <2> QED  BY <1>6, <2>2
  <1>8. RunningIsCurrent'
    BY <1>1 DEF IInv, RunningIsCurrent, ListName
  <1>9. ReadyIsNext' /\ NothingYet'
    BY DEF IInv, ReadyIsNext, NothingYet
  <1>10. AttemptsCounted'
    BY <1>1, <1>3, <1>4 DEF IInv, AttemptsCounted, CanRetry, ListName
  <1> QED  BY <1>2, <1>5, <1>7, <1>8, <1>9, <1>10 DEF IInv

LEMMA NodeCompletesStep == IInv /\ NodeCompletes => IInv'
  <1> SUFFICES ASSUME IInv, NodeCompletes PROVE IInv'
    OBVIOUS
  <1> USE DEF NodeCompletes
  <1>1. current \in Node /\ ListFor("completed", 0) = "completed"
    BY MaxSubtasksAssumption DEF IInv, TypeOK, RunningIsCurrent, Graph, Node, ListFor
  <1>2. /\ lists' \in [ListName -> SUBSET Node]
        /\ trace' \in Seq(TraceEntry)
        /\ \A s \in ListName, m \in Node :
             m \in lists'[s] <=> IF m = current THEN s = "completed" ELSE m \in lists[s]
    BY <1>1, UpdateMovesOneNode DEF IInv, TypeOK, SMTypeOK, Status, ListName
  <1> QED  BY <1>2, SettlingStep DEF IInv, TypeOK

LEMMA NodeRaisesStep == IInv /\ NodeRaises => IInv'
  <1> SUFFICES ASSUME IInv, NodeRaises PROVE IInv'
    OBVIOUS
  <1> USE DEF NodeRaises
  <1>1. /\ current \in Node /\ current \in Graph
        /\ CanRetry(retries[current])
    <2>1. current \in Graph /\ current \in lists["running"]
      BY DEF IInv, RunningIsCurrent
    <2>2. CanRetry(retries[current])
      BY <2>1 DEF IInv, AttemptsCounted
    <2>3. current \in Node
      BY <2>1, MaxSubtasksAssumption DEF IInv, TypeOK, Graph, Node
    <2> QED  BY <2>1, <2>2, <2>3
  <1>2. /\ retries' \in [Graph -> 0 .. MaxRetries]
        /\ \A m \in Graph : m # current => retries'[m] = retries[m]
        /\ retries'[current] \in 0 .. MaxRetries
    BY <1>1, RetryAssumption DEF IInv, TypeOK, CanRetry
  <1>3. mode' \in [Graph -> RoutedMode]
    BY <1>1 DEF IInv, TypeOK, RoutedMode, ReroutedMode
  <1>4. CASE CanRetry(retries'[current])
    <2>1. UpdateNodeStatus(current, "retry_queue", retries'[current])
      BY <1>4
    <2>2. ListFor("retry_queue", retries'[current]) = "retry_queue"
      BY DEF ListFor
    <2>3. /\ lists' \in [ListName -> SUBSET Node]
          /\ trace' \in Seq(TraceEntry)
          /\ \A s \in ListName, m \in Node :
               m \in lists'[s] <=> IF m = current THEN s = "retry_queue" ELSE m \in lists[s]
      BY <1>1, <2>1, <2>2, UpdateMovesOneNode DEF IInv, TypeOK, SMTypeOK, Status, ListName
    <2> QED  BY <1>2, <1>3, <1>4, <2>3, SettlingStep
  <1>5. CASE ~CanRetry(retries'[current])
    <2>1. UpdateNodeStatus(current, "failed", retries'[current])
      BY <1>5
    <2>2. ListFor("failed", retries'[current]) = "failed"
      BY <1>2, <1>5, RetryAssumption DEF ListFor, CanRetry
    <2>3. /\ lists' \in [ListName -> SUBSET Node]
          /\ trace' \in Seq(TraceEntry)
          /\ \A s \in ListName, m \in Node :
               m \in lists'[s] <=> IF m = current THEN s = "failed" ELSE m \in lists[s]
      BY <1>1, <2>1, <2>2, UpdateMovesOneNode DEF IInv, TypeOK, SMTypeOK, Status, ListName
    <2> QED  BY <1>2, <1>3, <1>5, <2>3, SettlingStep
  <1> QED  BY <1>4, <1>5

-----------------------------------------------------------------------------
(***************************************************************************)
(* Theorems                                                                *)
(***************************************************************************)

LEMMA NextInvariant == IInv /\ [Next]_vars => IInv'
  <1> SUFFICES ASSUME IInv, [Next]_vars PROVE IInv'
    OBVIOUS
  <1>1. CASE Route
    BY <1>1, RouteStep
  <1>2. CASE BuildGraph
    BY <1>2, BuildGraphStep
  <1>3. CASE StartIteration
    BY <1>3, StartIterationStep
  <1>4. CASE Finish
    BY <1>4, FinishStep
  <1>5. CASE EndIteration
    BY <1>5, EndIterationStep
  <1>6. ASSUME NEW n \in Node, StartNode(n) PROVE IInv'
    BY <1>6, StartNodeStep
  <1>7. CASE NodeCompletes
    BY <1>7, NodeCompletesStep
  <1>8. CASE NodeRaises
    BY <1>8, NodeRaisesStep
  <1>9. CASE UNCHANGED vars
    BY <1>9 DEF vars, smVars, graphVars, loopVars, IInv, TypeOK, SMTypeOK, BooksAgree, Chain,
                RunningIsCurrent, ReadyIsNext, AttemptsCounted, NothingYet, Graph, Listed,
                CanRetry
  <1> QED  BY <1>1, <1>2, <1>3, <1>4, <1>5, <1>6, <1>7, <1>8, <1>9 DEF Next, Returned

THEOREM InductiveInvariant == Spec => []IInv
  BY InitInvariant, NextInvariant, PTL DEF Spec

\* The state of run() is always well formed; in particular no node is ever
\* attempted more than MaxRetries times.
THEOREM TypeCorrect == Spec => []TypeOK
  <1>1. IInv => TypeOK
    BY DEF IInv
  <1> QED  BY <1>1, InductiveInvariant, PTL

\* A sub-task is only ever started behind its completed dependencies
\* (get_ready_nodes, state_machine.py).
THEOREM DependenciesAlwaysFirst == Spec => []DependenciesFirst
  <1>1. IInv => DependenciesFirst
    <2> SUFFICES ASSUME IInv, NEW n \in Graph, GetNodeStatus(n) # "pending"
                 PROVE  DependsOn(n) \subseteq lists["completed"]
      BY DEF DependenciesFirst
    <2>1. PICK s \in ListName : n \in lists[s]
      BY StatusOfNode DEF Listed
    <2>2. \A m \in Graph : m < n => m \in lists["completed"]
      BY <2>1 DEF IInv, Chain
    <2>3. \A m \in DependsOn(n) : m \in Graph /\ m < n
      BY MaxSubtasksAssumption DEF DependsOn, Graph, IInv, TypeOK
    <2> QED  BY <2>2, <2>3
  <1> QED  BY <1>1, InductiveInvariant, PTL

\* GraphNode and the lists of the state machine never disagree about a node.
THEOREM BooksAlwaysAgree == Spec => []BooksAgree
  <1>1. IInv => BooksAgree
    BY DEF IInv
  <1> QED  BY <1>1, InductiveInvariant, PTL

-----------------------------------------------------------------------------
(***************************************************************************)
(* Refinement                                                              *)
(***************************************************************************)

\* A node that becomes completed or failed settles the abstract task.
LEMMA SettlesTask ==
    ASSUME IInv, IInv', pc = "executing", NEW n, n = current,
           NEW verdict \in {"done", "failed"},
           \A m \in Node : m # n => Verdict(m)' = Verdict(m),
           Verdict(n)' = verdict
    PROVE  Abstract!Settle(n, verdict) /\ n \in Abstract!Task
  <1>1. /\ n \in Graph /\ n \in Node /\ Graph \subseteq Node
        /\ n \in lists["running"]
    BY MaxSubtasksAssumption DEF IInv, TypeOK, RunningIsCurrent, Graph, Node
  <1>2. Verdict(n) = "open"
    BY <1>1 DEF Verdict, IInv, BooksAgree, Listed, ListName
  <1>3. n > 1 => Verdict(n - 1) = "done" /\ n - 1 \in Node
    <2> SUFFICES ASSUME n > 1 PROVE Verdict(n - 1) = "done" /\ n - 1 \in Node
      OBVIOUS
    <2>1. n - 1 \in Graph /\ n - 1 < n
      BY <1>1, MaxSubtasksAssumption DEF Graph, IInv, TypeOK
    <2>2. n - 1 \in lists["completed"]
      BY <1>1, <2>1 DEF IInv, Chain, ListName
    <2> QED  BY <1>1, <2>1, <2>2 DEF Verdict
  <1>4. \A m \in Node : Verdict(m) # "failed"
    <2> SUFFICES ASSUME NEW m \in Node, Verdict(m) = "failed" PROVE FALSE
      OBVIOUS
    <2>1. m \in lists["failed"] /\ m \notin lists["completed"]
      BY DEF Verdict
    <2>2. m \in Graph /\ n \notin lists["completed"] /\ m # n
      BY <1>1, <2>1 DEF IInv, Chain, BooksAgree, Listed, ListName
    <2>3. CASE m < n
      BY <1>1, <2>1, <2>2, <2>3 DEF IInv, Chain, ListName
    <2>4. CASE n < m
      BY <1>1, <2>1, <2>2, <2>4 DEF IInv, Chain, ListName
    <2> QED  BY <1>1, <2>2, <2>3, <2>4, MaxSubtasksAssumption DEF Graph, IInv, TypeOK
  <1>5. [m \in Node |-> Verdict(m)'] = [[m \in Node |-> Verdict(m)] EXCEPT ![n] = verdict]
    BY <1>1
  <1> QED  BY <1>1, <1>2, <1>3, <1>4, <1>5 DEF Abstract!Settle, Abstract!Task, Node

LEMMA StepRefines ==
    IInv /\ IInv' /\ [Next]_vars => [Abstract!DagNext]_[n \in Node |-> Verdict(n)]
  <1> SUFFICES ASSUME IInv, IInv', [Next]_vars
               PROVE  \/ Abstract!DagNext
                      \/ [n \in Node |-> Verdict(n)]' = [n \in Node |-> Verdict(n)]
    OBVIOUS
  <1>1. CASE lists' = lists
    BY <1>1 DEF Verdict
  <1>2. ASSUME NEW n \in Node, StartNode(n)
        PROVE  [m \in Node |-> Verdict(m)]' = [m \in Node |-> Verdict(m)]
    <2>1. n \notin lists["completed"] \cup lists["failed"]
      BY <1>2 DEF StartNode, IInv, ReadyIsNext
    <2>2. \A m \in Node : Verdict(m)' = Verdict(m)
      BY <1>2, <2>1 DEF Verdict, StartNode, UpdateNodeStatus, ListFor, ListName
    <2> QED  BY <2>2
  <1>3. CASE NodeCompletes
    <2>1. PICK n \in Node : n = current
      BY <1>3, MaxSubtasksAssumption
         DEF NodeCompletes, IInv, TypeOK, RunningIsCurrent, Graph, Node
    <2>2. \A m \in Node : m # n => Verdict(m)' = Verdict(m)
      BY <1>3, <2>1 DEF NodeCompletes, UpdateNodeStatus, ListFor, ListName, Verdict
    <2>3. Verdict(n)' = "done"
      BY <1>3, <2>1 DEF NodeCompletes, UpdateNodeStatus, ListFor, ListName, Verdict
    <2>4. Abstract!Settle(n, "done") /\ n \in Abstract!Task
      BY <1>3, <2>1, <2>2, <2>3, SettlesTask DEF NodeCompletes
    <2> QED  BY <2>4 DEF Abstract!DagNext
  <1>4. CASE NodeRaises
    <2>1. PICK n \in Node : n = current
      BY <1>4, MaxSubtasksAssumption
         DEF NodeRaises, IInv, TypeOK, RunningIsCurrent, Graph, Node
    <2>2. n \in lists["running"] /\ n \notin lists["completed"] \cup lists["failed"]
      BY <1>4, <2>1 DEF NodeRaises, IInv, RunningIsCurrent, BooksAgree, Listed, ListName
    <2>3. \A m \in Node : m # n => Verdict(m)' = Verdict(m)
      BY <1>4, <2>1 DEF NodeRaises, UpdateNodeStatus, ListFor, ListName, Verdict
    <2>4. n \in Graph /\ retries'[n] \in 0 .. MaxRetries
      BY <1>4, <2>1, MaxSubtasksAssumption
         DEF NodeRaises, IInv, TypeOK, RunningIsCurrent, Graph
    <2>5. CASE CanRetry(retries'[n])
      <3>1. Verdict(n)' = Verdict(n)
        BY <1>4, <2>1, <2>2, <2>5
           DEF NodeRaises, UpdateNodeStatus, ListFor, ListName, Verdict
      <3> QED  BY <2>3, <3>1
    <2>6. CASE ~CanRetry(retries'[n])
      <3>1. Verdict(n)' = "failed"
        BY <1>4, <2>1, <2>2, <2>4, <2>6, RetryAssumption
           DEF NodeRaises, UpdateNodeStatus, ListFor, ListName, Verdict, CanRetry
      <3>2. Abstract!Settle(n, "failed") /\ n \in Abstract!Task
        BY <1>4, <2>1, <2>3, <3>1, SettlesTask DEF NodeRaises
      <3> QED  BY <3>2 DEF Abstract!DagNext
    <2> QED  BY <2>5, <2>6
  <1> QED
    BY <1>1, <1>2, <1>3, <1>4
       DEF Next, Route, BuildGraph, StartIteration, Finish, EndIteration, Returned, vars, smVars

\* The orchestration loop implements the abstract chain of sub-tasks: each is
\* settled at most once, in order, and none after a failure (run, 97-134).
THEOREM RunImplementsTaskDag == Spec => ImplementsTaskDag
  <1>1. Init => Abstract!DagInit
    BY DEF Init, SMInit, Abstract!DagInit, Abstract!Task, Node, Verdict, ListName
  <1>2. IInv /\ IInv' /\ [Next]_vars => [Abstract!DagNext]_[n \in Node |-> Verdict(n)]
    BY StepRefines
  <1> QED  BY <1>1, <1>2, InductiveInvariant, PTL DEF Spec, ImplementsTaskDag, Abstract!DagSpec


\* run() starts nothing before what it depends on and keeps its two books in
\* step, for any number of sub-tasks and any limits.
THEOREM RunAlwaysHolds == Spec => []RunHolds
  <1>1. TypeOK /\ DependenciesFirst /\ BooksAgree => RunHolds
    BY DEF RunHolds
  <1> QED
    BY <1>1, TypeCorrect, DependenciesAlwaysFirst, BooksAlwaysAgree, PTL

-----------------------------------------------------------------------------
(***************************************************************************)
(* Why the iteration guard is never reached.  The first sub-task is the    *)
(* only one the loop gets to (section 6 of the README), so the iterations  *)
(* are its attempts, and CanRetry bounds those.                            *)
(***************************************************************************)

LoopMayStop == IsAllDone \/ IsFailureTerminal

\* Only the first sub-task can be in a list, and that list is the retry queue.
OnlyFirstQueued == \A s \in ListName : lists[s] \subseteq IF s = "retry_queue" THEN {1} ELSE {}

\* Between two iterations: each one so far was an attempt of the first sub-task
\* that failed and left a retry, or the loop may stop.
RoundOver ==
    \/ LoopMayStop
    \/ OnlyFirstQueued /\ lists["retry_queue"] # {} /\ retries[1] = iteration

\* Inside an iteration: one more attempt of the first sub-task.
InRound == retries[1] + 1 = iteration

RoundsAreAttempts ==
    /\ pc \in {"loop", "nodes", "executing"} => 1 \in Graph
    /\ pc \in {"route", "build"} => iteration = 0
    /\ pc = "loop" =>
         RoundOver \/ (iteration = 0 /\ OnlyFirstQueued /\ Listed(1) = {})
    /\ pc = "nodes" /\ ready = {} => RoundOver
    /\ pc = "nodes" /\ ready # {} => ready = {1} /\ InRound /\ OnlyFirstQueued
    /\ pc = "executing" =>
         /\ current = 1 /\ InRound
         /\ \A s \in ListName : lists[s] \subseteq IF s = "running" THEN {1} ELSE {}
    /\ pc = "end" /\ decision # "deny" => LoopMayStop

GuardInv == IInv /\ RoundsAreAttempts

LEMMA InitRounds == Init => RoundsAreAttempts
  BY DEF Init, RoundsAreAttempts

\* A round that is over with the loop going on leaves an iteration to spare.
LEMMA RoundsBelowGuard ==
    ASSUME GuardInv, pc = "loop", ~LoopMayStop
    PROVE  iteration < MaxIterations
  <1>1. CASE iteration = 0
    BY <1>1, IterationAssumption
  <1>2. CASE iteration # 0
    <2>1. 1 \in Graph /\ 1 \in lists["retry_queue"] /\ retries[1] = iteration
      BY <1>2 DEF GuardInv, RoundsAreAttempts, RoundOver, OnlyFirstQueued, ListName
    <2>2. CanRetry(retries[1]) /\ retries[1] \in Nat
      BY <2>1, RetryAssumption DEF GuardInv, IInv, BooksAgree, TypeOK
    <2> QED  BY <2>1, <2>2, GuardAssumption, IterationAssumption, RetryAssumption DEF CanRetry
  <1> QED  BY <1>1, <1>2

\* What a settled attempt of the first sub-task leaves behind ends the round.
LEMMA AttemptEndsRound ==
    ASSUME GuardInv, pc = "executing", ready' = {}, iteration' = iteration,
           NEW to \in {"completed", "retry_queue", "failed"},
           lists' \in [ListName -> SUBSET Node],
           \A s \in ListName, m \in Node :
             m \in lists'[s] <=> IF m = current THEN s = to ELSE m \in lists[s],
           to = "retry_queue" => retries'[1] = retries[1] + 1
    PROVE  RoundOver'
  <1>1. /\ current = 1 /\ 1 \in Node
        /\ \A s \in ListName : lists'[s] = IF s = to THEN {1} ELSE {}
    BY MaxSubtasksAssumption DEF GuardInv, RoundsAreAttempts, Node
  <1>2. CASE to = "completed"
    BY <1>1, <1>2 DEF RoundOver, LoopMayStop, IsAllDone, ListName
  <1>3. CASE to = "failed"
    BY <1>1, <1>3 DEF RoundOver, LoopMayStop, IsFailureTerminal, ListName
  <1>4. CASE to = "retry_queue"
    BY <1>1, <1>4 DEF RoundOver, OnlyFirstQueued, ListName, GuardInv, RoundsAreAttempts, InRound
  <1> QED  BY <1>2, <1>3, <1>4

LEMMA StartIterationRounds == GuardInv /\ StartIteration => RoundsAreAttempts'
  <1> SUFFICES ASSUME GuardInv, StartIteration PROVE RoundsAreAttempts'
    OBVIOUS
  <1> USE DEF StartIteration, smVars, graphVars
  <1>1. ~LoopMayStop /\ 1 \in Graph /\ OnlyFirstQueued
    BY DEF KeepLooping, LoopMayStop, GuardInv, RoundsAreAttempts, RoundOver
  <1>2. lists["completed"] = {} /\ lists["running"] = {}
    BY <1>1 DEF OnlyFirstQueued, ListName
  <1>3. 1 \in ready'
    BY <1>1, <1>2 DEF ReadyNodes, DependsOn
  <1>4. \A n \in ready' : n = 1
    <2> SUFFICES ASSUME NEW n \in ready' PROVE n = 1
      OBVIOUS
    <2>1. n \in Graph /\ \A m \in Graph : m < n => m \in lists["completed"]
      BY ReadyNodesAreNext DEF GuardInv
    <2>2. ~(1 < n)
      BY <1>1, <1>2, <2>1
    <2> QED  BY <2>1, <2>2 DEF Graph, GuardInv, IInv, TypeOK
  <1>5. retries[1] = iteration
    <2>1. CASE iteration = 0 /\ Listed(1) = {}
      BY <1>1, <2>1 DEF GuardInv, IInv, AttemptsCounted
    <2> QED  BY <1>1, <2>1 DEF GuardInv, RoundsAreAttempts, RoundOver
  <1>6. ready' = {1} /\ InRound' /\ OnlyFirstQueued' /\ 1 \in Graph'
    BY <1>1, <1>3, <1>4, <1>5 DEF InRound, OnlyFirstQueued, Graph
  <1> QED  BY <1>6 DEF RoundsAreAttempts

LEMMA NextRounds == GuardInv /\ IInv' /\ [Next]_vars => RoundsAreAttempts'
  <1> SUFFICES ASSUME GuardInv, IInv', [Next]_vars PROVE RoundsAreAttempts'
    OBVIOUS
  <1>1. CASE Route
    BY <1>1 DEF Route, RoundsAreAttempts, GuardInv, IInv, NothingYet, loopVars, Init
  <1>2. CASE BuildGraph
    <2>1. 1 \in Graph'
      BY <1>2, MaxSubtasksAssumption DEF BuildGraph, Graph, Node
    <2>2. OnlyFirstQueued' /\ Listed(1)' = {} /\ iteration' = 0
      BY <1>2 DEF BuildGraph, GuardInv, IInv, NothingYet, OnlyFirstQueued, Listed, ListName,
                  RoundsAreAttempts, loopVars
    <2> QED  BY <1>2, <2>1, <2>2 DEF BuildGraph, RoundsAreAttempts
  <1>3. CASE StartIteration
    BY <1>3, StartIterationRounds
  <1>4. CASE Finish
    <2>1. LoopMayStop
      BY <1>4, RoundsBelowGuard DEF Finish, KeepLooping, LoopMayStop
    <2>2. LoopMayStop'
      BY <1>4, <2>1 DEF Finish, LoopMayStop, IsAllDone, IsFailureTerminal, smVars
    <2> QED  BY <1>4, <2>2 DEF Finish, RoundsAreAttempts
  <1>5. CASE EndIteration
    <2>1. RoundOver'
      BY <1>5 DEF EndIteration, GuardInv, RoundsAreAttempts, RoundOver, LoopMayStop, IsAllDone,
                  IsFailureTerminal, OnlyFirstQueued, smVars, graphVars, loopVars
    <2> QED  BY <1>5, <2>1
             DEF EndIteration, RoundsAreAttempts, GuardInv, Graph, graphVars, loopVars
  <1>6. ASSUME NEW n \in Node, StartNode(n) PROVE RoundsAreAttempts'
    <2>1. n = 1 /\ ready' = {} /\ current' = 1 /\ pc' = "executing"
      BY <1>6 DEF StartNode, GuardInv, RoundsAreAttempts
    <2>2. \A s \in ListName : lists'[s] = IF s = "running" THEN {1} ELSE {}
      BY <1>6, <2>1 DEF StartNode, UpdateNodeStatus, ListFor, GuardInv, RoundsAreAttempts,
                        OnlyFirstQueued, ListName
    <2> QED  BY <1>6, <2>1, <2>2
             DEF StartNode, RoundsAreAttempts, GuardInv, InRound, Graph
  <1>7. CASE NodeCompletes
    <2>1. /\ ready' = {} /\ pc' = "nodes" /\ current \in Node /\ 1 \in Graph'
          /\ ListFor("completed", 0) = "completed"
      <3>1. current = 1 /\ 1 \in Graph /\ ready = {}
        BY <1>7 DEF NodeCompletes, GuardInv, RoundsAreAttempts, IInv, ReadyIsNext
      <3> QED  BY <1>7, <3>1, MaxSubtasksAssumption DEF NodeCompletes, Graph, Node, ListFor
    <2>2. /\ lists' \in [ListName -> SUBSET Node]
          /\ \A s \in ListName, m \in Node :
               m \in lists'[s] <=> IF m = current THEN s = "completed" ELSE m \in lists[s]
      BY <1>7, <2>1, UpdateMovesOneNode
         DEF NodeCompletes, GuardInv, IInv, TypeOK, SMTypeOK, Status, ListName
    <2>3. RoundOver'
      BY <1>7, <2>1, <2>2, AttemptEndsRound DEF NodeCompletes
    <2> QED  BY <2>1, <2>3 DEF RoundsAreAttempts
  <1>8. CASE NodeRaises
    <2>1. /\ ready' = {} /\ pc' = "nodes" /\ current \in Node /\ 1 \in Graph'
          /\ retries'[1] = retries[1] + 1
      <3>1. current = 1 /\ 1 \in Graph /\ ready = {} /\ retries \in [Graph -> 0 .. MaxRetries]
        BY <1>8 DEF NodeRaises, GuardInv, RoundsAreAttempts, IInv, ReadyIsNext, TypeOK
      <3> QED  BY <1>8, <3>1, MaxSubtasksAssumption DEF NodeRaises, Graph, Node
    <2>2. PICK to \in {"retry_queue", "failed"} :
             /\ lists' \in [ListName -> SUBSET Node]
             /\ \A s \in ListName, m \in Node :
                  m \in lists'[s] <=> IF m = current THEN s = to ELSE m \in lists[s]
      <3>1. PICK new \in {"retry_queue", "failed"} :
               UpdateNodeStatus(current, new, retries'[current])
        BY <1>8 DEF NodeRaises
      <3>2. ListFor(new, retries'[current]) \in {"retry_queue", "failed"}
        BY DEF ListFor
      <3> QED  BY <2>1, <3>1, <3>2, UpdateMovesOneNode
               DEF GuardInv, IInv, TypeOK, SMTypeOK, Status, ListName
    <2>3. RoundOver'
      BY <1>8, <2>1, <2>2, AttemptEndsRound DEF NodeRaises
    <2> QED  BY <2>1, <2>3 DEF RoundsAreAttempts
  <1>9. CASE UNCHANGED vars
    BY <1>9 DEF vars, smVars, graphVars, loopVars, GuardInv, RoundsAreAttempts, RoundOver,
                LoopMayStop, IsAllDone, IsFailureTerminal, OnlyFirstQueued, InRound, Graph, Listed
  <1> QED  BY <1>1, <1>2, <1>3, <1>4, <1>5, <1>6, <1>7, <1>8, <1>9 DEF Next, Returned

\* The loop of run() never stops because of its iteration guard, however many
\* sub-tasks there are: the retry limits end it first (run, 97-134).
THEOREM GuardNeverReached == Spec => []GuardNeverCutsShort
  <1>1. Init => RoundsAreAttempts
    BY InitRounds
  <1>2. IInv /\ IInv' /\ RoundsAreAttempts /\ [Next]_vars => RoundsAreAttempts'
    BY NextRounds DEF GuardInv
  <1>3. RoundsAreAttempts => GuardNeverCutsShort
    BY DEF RoundsAreAttempts, GuardNeverCutsShort, LoopMayStop
  <1> QED  BY <1>1, <1>2, <1>3, InductiveInvariant, PTL DEF Spec
=============================================================================
