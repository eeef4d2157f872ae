------------------------------- MODULE Reality -------------------------------
(***************************************************************************)
(* TAAR v10, REAL-OS: process_civ_decisions takes the decisions of the     *)
(* civilization layer one by one through the translator, the control       *)
(* council, the action engine and the infrastructure abstraction layer,    *)
(* and books what happened in the impact memory.  Council and layer each   *)
(* keep a picture of the cluster.  CPU (8) and RAM (16) go with every node *)
(* in both of them.  The council's own execute_action is an interface of   *)
(* its own that the pipeline does not use: ExecuteAction is its caller.    *)
(***************************************************************************)
EXTENDS Integers, Sequences, FiniteSets

CONSTANTS Decisions,    \* the civ actions that may be decided
          MaxDecisions  \* bound: decisions of a session

VARIABLES simulation,   \* simulation_mode, handed to council, engine and layer
          council,      \* RealityControlCouncil
          layer,        \* InfraAbstractionLayer
          log,          \* the engine's execution_log with the action behind it
          totals        \* counters of TAARv10RealOS and of GlobalImpactMemory
revars == <<simulation, council, layer, log, totals>>

(***************************************************************************)
(* The two classifications of a decision: the council's and the            *)
(* translator's (which only labels what is recorded).                      *)
(***************************************************************************)
ActionOf(d) ==
  CASE d \in {"create_economy", "split_economy", "increase_capacity"} -> "SCALE"
    [] d \in {"remove_economy", "merge_economies", "decrease_capacity"} -> "SCALE_DOWN"
    [] d = "deploy_service" -> "DEPLOY"     [] d = "optimize_compute" -> "OPTIMIZE_GPU"
    [] d = "failover" -> "ISOLATE"          [] d = "recover" -> "ROLLBACK"
    [] d = "update_pipeline" -> "MODIFY_PIPELINE"
    [] OTHER -> "MONITOR"

\* 1 LOW, 2 MEDIUM, 3 HIGH, 4 CRITICAL.
ClassifyRisk(type) ==
  CASE type \in {"DEPLOY", "SCALE"} -> 3 [] type \in {"SCALE_DOWN", "ISOLATE"} -> 4
    [] type \in {"ROLLBACK", "OPTIMIZE_GPU", "MODIFY_PIPELINE"} -> 2 [] OTHER -> 1

\* _build_params: a split asks for one node here, for two in the translation.
DeltaNodes(type) == CASE type = "SCALE" -> 1 [] type = "SCALE_DOWN" -> -1 [] OTHER -> 0

\* The translator's fidelity in hundredths, by rule.  A "trade" is one of GPU
\* time, a "trade_goods" one of any other resource.
EconomyFidelity(d) == CASE d = "create_economy" -> 95 [] d = "remove_economy" -> 85 [] OTHER -> 80
CapacityFidelity(d) == IF d = "increase_capacity" THEN 95 ELSE 88
ConflictFidelity(d) == IF d \in {"declare_war", "initiate_conflict"} THEN 90 ELSE 85
Translate(d) ==
  CASE d \in {"create_economy", "remove_economy", "split_economy"} -> EconomyFidelity(d)
    [] d \in {"increase_capacity", "decrease_capacity"} -> CapacityFidelity(d)
    [] d \in {"declare_war", "initiate_conflict", "sign_treaty", "end_conflict"} -> ConflictFidelity(d)
    [] d = "deploy_service" -> 98 [] d = "trade" -> 75 [] d = "trade_goods" -> 50 [] d = "allocate_resources" -> 90
    [] d = "optimize_compute" -> 92 [] d = "failover" -> 95
    [] OTHER -> 0

(***************************************************************************)
(* The council.                                                            *)
(***************************************************************************)
AutoApproved(risk) == risk <= 2 \/ simulation

ReceiveCivDecision(d) ==
  LET type == ActionOf(d)
      risk == ClassifyRisk(type)
  IN [type |-> type, risk |-> risk, delta |-> DeltaNodes(type), simulated |-> FALSE,
      approved |-> AutoApproved(risk)]

\* simulate_action changes the council's own picture, for a SCALE and for no
\* other kind; every simulation says "safe".
Simulated(c, action) == [c EXCEPT !.nodes = @ + IF action.type = "SCALE" THEN action.delta ELSE 0]
SimulationDue(action) == action.risk >= 3 /\ ~action.simulated

\* request_approval: up to MEDIUM by itself, in simulation mode always; else the
\* action is parked, and nothing takes it out of the list again.
Parked(c, action) == [c EXCEPT !.pending = Append(@, action)]

\* A rollback entry is logged in front of what it would undo.
Undo(action) == [action EXCEPT !.type = IF action.type = "SCALE" THEN "SCALE_DOWN" ELSE "SCALE",
                               !.delta = -action.delta, !.risk = 2, !.approved = TRUE,
                               !.simulated = FALSE]
LoggedWithUndo(c, action) ==
  [c EXCEPT !.executed = @ + 1,
            !.log = @ \o IF action.type \in {"SCALE", "SCALE_DOWN"} THEN <<Undo(action), action>>
                         ELSE <<action>>]

\* execute_action of an action the council has received; a session uses this
\* interface or the pipeline.
ExecuteAction ==
  /\ totals.direct < MaxDecisions /\ log = <<>>
  /\ \E d \in Decisions :
       LET action == ReceiveCivDecision(d)
           due == SimulationDue(action)
           c == [(IF due THEN Simulated(council, action) ELSE council) EXCEPT !.cycles = @ + 1]
           done == [action EXCEPT !.simulated = due]
       IN council' = IF action.approved THEN LoggedWithUndo(c, done) ELSE Parked(c, done)
  /\ totals' = [totals EXCEPT !.direct = @ + 1]
  /\ UNCHANGED <<simulation, layer, log>>

(***************************************************************************)
(* The engine and the layer.                                               *)
(***************************************************************************)
\* _check_safety_holds; every action can be rolled back here.
SafetyHolds(action) ==
  {h \in {"SIMULATION_REQUIRED", "APPROVAL_REQUIRED"} :
     \/ h = "SIMULATION_REQUIRED" /\ action.risk >= 3 /\ ~action.simulated
     \/ h = "APPROVAL_REQUIRED" /\ action.risk >= 4 /\ ~action.approved}

\* execute: holds escalate; otherwise both modes complete, _execute_real being a
\* stub that cannot fail, so that no rollback is ever tried.
EngineStatus(action) == IF SafetyHolds(action) # {} THEN "ESCALATED" ELSE "COMPLETED"

ScaleCluster(l, delta) == [l EXCEPT !.nodes = @ + delta, !.history = Append(@, "scale")]
DeployService(l) == [l EXCEPT !.services = @ + 1, !.history = Append(@, "deploy")]

\* Mutant of ApplyToInfra: a scale-down is applied as a scale-up.
ApplyMagnitude(action) ==
  CASE action.type \in {"SCALE", "SCALE_DOWN"} -> ScaleCluster(layer, 1)
    [] action.type = "DEPLOY" -> DeployService(layer)
    [] OTHER -> layer

\* _apply_to_infra: whatever was simulated is applied, be it approved or not; what
\* needs no simulation (GPU, pipeline) is never applied, and an isolation does
\* nothing.
ApplyToInfra(action) ==
  CASE action.type \in {"SCALE", "SCALE_DOWN"} -> ScaleCluster(layer, action.delta)
    [] action.type = "DEPLOY" -> DeployService(layer)
    [] OTHER -> layer

(***************************************************************************)
(* process_civ_decisions, one decision.                                    *)
(***************************************************************************)
RecordImpact(t, d) == [t EXCEPT !.changes = @ + 1, !.mappings = @ + 1, !.fidelity = @ + Translate(d)]

ProcessDecision ==
  /\ Len(log) < MaxDecisions /\ totals.direct = 0
  /\ \E d \in Decisions :
       LET received == ReceiveCivDecision(d)
           action == [received EXCEPT !.simulated = SimulationDue(received)]
           status == EngineStatus(action)
           counter == IF status = "COMPLETED" THEN "executed" ELSE "blocked"
       IN /\ council' = [(IF action.simulated THEN Simulated(council, action) ELSE council)
                           EXCEPT !.cycles = @ + 1]
          /\ layer' = IF action.simulated THEN ApplyToInfra(action) ELSE layer
          /\ log' = Append(log, [action |-> action, status |-> status])
          /\ totals' = [RecordImpact(totals, d) EXCEPT !.submitted = @ + 1, ![counter] = @ + 1]
  /\ UNCHANGED simulation

RealityInit ==
  /\ simulation \in BOOLEAN
  /\ council = [nodes |-> 2, cycles |-> 0, pending |-> <<>>, executed |-> 0, log |-> <<>>]
  /\ layer = [nodes |-> 2, services |-> 1, gpu |-> 45, history |-> <<>>]
  /\ log = <<>>
  /\ totals = [submitted |-> 0, executed |-> 0, blocked |-> 0, changes |-> 0, mappings |-> 0,
               fidelity |-> 0, direct |-> 0]
RealityNext == ProcessDecision \/ ExecuteAction
RealitySpec == RealityInit /\ [][RealityNext]_revars

(***************************************************************************)
(* Properties.                                                             *)
(***************************************************************************)
LoggedAs(types) == {n \in DOMAIN log : log[n].action.type \in types}

\* Every decision ends as executed or blocked and leaves its two entries in the
\* impact memory; nothing is blocked in simulation mode.
DecisionsAddUp ==
  /\ totals.submitted = totals.executed + totals.blocked
  /\ totals.submitted = Len(log) /\ totals.changes = Len(log) /\ totals.mappings = Len(log)
  /\ simulation => totals.blocked = 0

\* The pictures of the cluster drift apart by one node with every scale-down: the
\* layer applies it, the council does not see it (reality_control_council.py:195).
\* The layer follows the log of decisions exactly, blocked ones included.
PicturesDriftByScaleDown ==
  /\ log # <<>> => council.nodes - layer.nodes = Cardinality(LoggedAs({"SCALE_DOWN"}))
  /\ layer.nodes = 2 + Cardinality(LoggedAs({"SCALE"})) - Cardinality(LoggedAs({"SCALE_DOWN"}))
  /\ layer.services = 1 + Cardinality(LoggedAs({"DEPLOY"}))
  /\ layer.gpu = 45

\* What waits for a person has been simulated and is carried out by nobody; what
\* the council carried out itself was approved, and each change of size has its
\* undo in the log, in front of it (reality_control_council.py:263).
ParkedNeverRuns ==
  /\ \A n \in DOMAIN council.pending : /\ ~council.pending[n].approved /\ ~simulation
                                       /\ council.pending[n].simulated
  /\ \A n \in DOMAIN council.log : council.log[n].approved
  /\ council.cycles = council.executed + Len(council.pending) + Len(log)
  /\ \A n \in DOMAIN council.log :
       council.log[n].delta # 0 => \E m \in {n - 1, n + 1} \cap DOMAIN council.log :
                                     council.log[m].delta = -council.log[n].delta

\* DecisionsAddUp, PicturesDriftByScaleDown and ParkedNeverRuns.
RealityHolds == DecisionsAddUp /\ PicturesDriftByScaleDown /\ ParkedNeverRuns
=============================================================================
