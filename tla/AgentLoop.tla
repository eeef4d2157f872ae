----------------------------- MODULE AgentLoop -----------------------------
(* agents/langgraph_core.py: run_task() sends a task through a compiled graph
   planner -> (executor -> reviewer)* -> aggregator.  What the model and the
   tools answer is chosen freely; every node may also raise, which ends the
   task.  LangGraph is external: it calls the nodes along the edges and raises
   when a pass has taken RecursionLimit nodes. *)
EXTENDS Naturals, Sequences, SequencesExt

CONSTANTS
  MaxPlan,         \* the longest plan of the model (the prompt says 10)
  Limits,          \* the values of max_iterations that callers pass
  RecursionLimit   \* of LangGraph, 25 by default

ASSUME AgentAssumption ==
  MaxPlan \in Nat /\ Limits \subseteq Nat /\ RecursionLimit \in Nat \ {0}

VARIABLES
  agent,       \* the GraphState: plan, current step, verdict, error, result
  at,          \* the node that is due, or how the task ended
  supersteps,  \* nodes run in this pass
  remaining,   \* the argument of _run_with_iterations
  tried        \* steps the executor has run since the planner (history)

loopvars == <<agent, at, supersteps, remaining, tried>>

Statuses == {"pending", "in_progress", "done", "failed", "revision"}
Reviews == {"none", "approved", "rejected", "revision"}
Ends == {"returned", "raised"}

PlanStep == [tool : BOOLEAN, status : Statuses, result : BOOLEAN, error : BOOLEAN]
NewStep(tool) == [tool |-> tool, status |-> "pending", result |-> FALSE, error |-> FALSE]
NoState == [plan |-> <<>>, step |-> 0, verdict |-> "none", error |-> FALSE,
            iteration |-> 0, max |-> 0, final |-> "none"]

AgentTypeOK ==
  /\ agent.plan \in SeqOf(PlanStep, MaxPlan) /\ agent.step \in 0 .. MaxPlan
  /\ agent.verdict \in Reviews /\ agent.error \in BOOLEAN
  /\ agent.final \in {"none", "answer", "failed", "cut"}
  /\ at \in {"idle", "planner", "executor", "reviewer", "aggregator"} \cup Ends
  /\ supersteps \in 0 .. RecursionLimit /\ tried \subseteq 1 .. MaxPlan

AgentInit ==
  /\ agent = NoState /\ at = "idle" /\ supersteps = 0 /\ remaining = 0 /\ tried = {}

(* _run_with_iterations(): without a pass left the task is given up at once. *)
RunWithIterations(state, left) ==
  /\ agent' = IF left = 0 THEN [state EXCEPT !.final = "cut"] ELSE state
  /\ at' = IF left = 0 THEN "returned" ELSE "planner"
  /\ remaining' = left /\ supersteps' = 0 /\ tried' = {}

RunTask ==
  /\ at \in {"idle"} \cup Ends
  /\ \E limit \in Limits : RunWithIterations([NoState EXCEPT !.max = limit], limit)

\* Mutant of Node: the supersteps are not counted.
NodeUncounted(name, next) ==
  /\ at = name /\ supersteps < RecursionLimit
  /\ at' = next /\ UNCHANGED <<remaining, supersteps>>

(* The nodes of one pass, each taking one of LangGraph's supersteps. *)
Node(name, next) ==
  /\ at = name /\ supersteps < RecursionLimit
  /\ supersteps' = supersteps + 1 /\ at' = next /\ UNCHANGED remaining

Finished(state) == state.step >= Len(state.plan)

(* planner_node(): an answer that is no JSON becomes a plan of one step. *)
PlannerNode ==
  /\ Node("planner", "executor")
  /\ \E n \in 0 .. MaxPlan : \E tools \in [1 .. n -> BOOLEAN] :
       agent' = [agent EXCEPT !.plan = [i \in 1 .. n |-> NewStep(tools[i])], !.step = 0]
  /\ tried' = {}

(* A tool that answers leaves its step to the reviewer, one that raises marks
   it failed; without a tool the model answers. *)
ToolRun(step, ok) ==
  CASE step.tool /\ ok -> [step EXCEPT !.status = "pending", !.result = TRUE]
    [] step.tool /\ ~ok -> [step EXCEPT !.status = "failed", !.error = TRUE]
    [] OTHER -> [step EXCEPT !.status = "in_progress", !.result = TRUE]

ExecutorNode ==
  /\ Node("executor", "reviewer")
  /\ IF Finished(agent)
     THEN UNCHANGED <<agent, tried>>
     ELSE /\ \E ok \in BOOLEAN : agent' = [agent EXCEPT !.plan[agent.step + 1] = ToolRun(@, ok)]
          /\ tried' = tried \cup {agent.step + 1}

(* reviewer_node(): an answer that is no JSON approves, a verdict it does not
   know asks for a revision. *)
Reviewed(state, verdict) ==
  LET i == state.step + 1
      judged == [state EXCEPT !.verdict = verdict]
  IN IF Finished(state) THEN [state EXCEPT !.verdict = "approved"]
     ELSE CASE verdict = "approved" -> [judged EXCEPT !.plan[i].status = "done", !.step = @ + 1]
            [] verdict = "rejected" -> [judged EXCEPT !.plan[i].status = "failed", !.error = TRUE]
            [] OTHER -> [judged EXCEPT !.plan[i].status = "revision"]

\* Mutant of ShouldContinue: a step that needs a revision is not run again.
ShouldContinueOnce(state) ==
  IF state.error \/ state.iteration >= state.max \/ Finished(state) \/ state.verdict # "approved"
  THEN "aggregator" ELSE "executor"

ShouldContinue(state) ==
  IF \/ state.error \/ state.iteration >= state.max
     \/ Finished(state) \/ state.verdict = "rejected"
  THEN "aggregator" ELSE "executor"

ReviewerNode ==
  /\ \E verdict \in Reviews \ {"none"} :
       /\ agent' = Reviewed(agent, verdict)
       /\ Node("reviewer", ShouldContinue(Reviewed(agent, verdict)))
  /\ UNCHANGED tried

(* aggregator_node() and END: invoke() returns, and _run_with_iterations()
   begins another pass unless the task failed or all its steps are done. *)
AggregatorNode ==
  /\ at = "aggregator" /\ supersteps < RecursionLimit
  /\ LET state == [agent EXCEPT !.final = IF agent.error THEN "failed" ELSE "answer"]
     IN IF state.error \/ Finished(state)
        THEN /\ agent' = state /\ at' = "returned" /\ supersteps' = supersteps + 1
             /\ UNCHANGED <<remaining, tried>>
        ELSE RunWithIterations([state EXCEPT !.iteration = @ + 1], remaining - 1)

(* A model that cannot be reached, a plan without descriptions, or the limit of
   the library: the exception leaves run_task(). *)
NodeRaises ==
  /\ at \in {"planner", "executor", "reviewer", "aggregator"}
  /\ at' = "raised" /\ UNCHANGED <<agent, supersteps, remaining, tried>>

AgentNext ==
  RunTask \/ PlannerNode \/ ExecutorNode \/ ReviewerNode \/ AggregatorNode \/ NodeRaises
AgentSteps == PlannerNode \/ ExecutorNode \/ ReviewerNode \/ AggregatorNode \/ NodeRaises
AgentSpec == AgentInit /\ [][AgentNext]_loopvars /\ WF_loopvars(AgentSteps)

-----------------------------------------------------------------------------
(* A pass is never repeated, so max_iterations never cuts a task short: what
   invoke() returns either failed or went through all its steps, and revisions
   happen inside the pass, bounded only by LangGraph
   (langgraph_core.py:374, :500). *)
PassIsFinal ==
  /\ agent.iteration = 0
  /\ at = "returned" => agent.error \/ Finished(agent) \/ agent.max = 0

(* An answer without error comes from steps that were all run and then all
   approved, in their order; a step that failed is behind every failure. *)
AnswerIsReviewed ==
  /\ \A i \in 1 .. Len(agent.plan) : agent.plan[i].status = "done" <=> i <= agent.step
  /\ \A i \in 1 .. agent.step : i \in tried /\ (agent.plan[i].result \/ agent.plan[i].error)
  /\ agent.final = "failed" => agent.plan[agent.step + 1].status = "failed"

AgentKeepsItsWord == PassIsFinal /\ AnswerIsReviewed

(* run_task() comes to an end: revisions follow one another until the library's
   recursion limit raises, which nothing in the repository sets or catches. *)
TasksEnd == (at = "planner") ~> (at \in Ends)
=============================================================================
