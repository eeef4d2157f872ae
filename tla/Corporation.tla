---------------------------- MODULE Corporation ----------------------------
(* The AI corporation (agents/aic_os.py): run_cycle takes tasks in, assigns
   them, has the governance board vote, pays from the budget for model calls,
   executes and evolves the staff.  The texts of the tasks are abstracted to
   kinds: the risk, cost and value the keyword tables give them, and how many of
   the five board members speak for them.  Money is counted in half units. *)
EXTENDS Integers, Sequences, SequencesExt, FiniteSetsExt, Functions

CONSTANTS Kinds,     \* [risk, cost, value, ayes]: what a description is taken for
          Employees,
          Limit,     \* the allocation of the category llm_calls
          MaxTasks   \* bound on the tasks of one cycle

\* What _assess_risk, _estimate_cost and _estimate_value can make of a description
Risk == {"low", "medium", "high", "critical"}
CostsAndValues == ({1} \X {10, 16, 20, 30}) \cup ({2} \X {10, 20})
                  \cup ({4} \X {16, 20}) \cup ({6} \X {20, 30})
IsKind(k) == k.risk \in Risk /\ <<k.cost, k.value>> \in CostsAndValues /\ k.ayes \in 0..5

ASSUME CorporationAssumption ==
  Limit \in Nat /\ MaxTasks \in Nat /\ \A k \in Kinds : IsKind(k)

Tiers == <<"junior", "senior", "lead", "director", "executive">>

VARIABLES
  phase,   \* where run_cycle is
  tasks,   \* the tasks of this cycle
  spent,   \* budgets[LLM_CALLS].spent
  outcome, \* ROITracker.outcomes: how many and at what cost
  scores,  \* ROITracker.employee_scores: per employee how many, and the sum of the ROIs
  staff    \* OrgRegistry: per employee the index of the tier, and whether it is offline

cvars == <<phase, tasks, spent, outcome, scores, staff>>

Online == {e \in Employees : ~staff[e].offline}

CorpInit ==
  /\ phase = "intake" /\ tasks = <<>> /\ spent = 0
  /\ outcome = [n |-> 0, cost |-> 0]
  /\ scores = [e \in Employees |-> [n |-> 0, roi |-> 0]]
  /\ staff \in [Employees -> [tier : 1..3, offline : {FALSE}]]

\* The allocator takes the employee with the best score of those that are not offline;
\* the scores are data, so any of them may be the best
Assignees == IF Online = {} THEN {"unassigned"} ELSE Online

\* INTAKE and ORGANIZE
Intake ==
  /\ phase = "intake"
  /\ \E n \in 1..MaxTasks :
       tasks' \in [1..n -> [kind : Kinds, status : {"organized"}, who : Assignees]]
  /\ phase' = "allocate"
  /\ UNCHANGED <<spent, outcome, scores, staff>>

\* Board.vote: each of the five members votes, then Proposal.decision
Decision(kind) ==
  CASE kind.risk = "low" -> "approved"
    [] kind.risk = "critical" -> "vetoed"
    [] OTHER -> IF 10 * kind.ayes >= 6 * 5 THEN "approved"
                ELSE IF 10 * kind.ayes <= 2 * 5 THEN "rejected" ELSE "pending"

Remaining == IF Limit > spent THEN Limit - spent ELSE 0
\* Mutant of CanAfford: what is left is not compared with the amount.
CanAffordAny(amount) == Remaining > 0
CanAfford(amount) == Remaining >= amount

\* BudgetController.request looks at what was spent before, not at the amount
Request(amount) == IF spent > Limit THEN spent ELSE spent + amount

\* ALLOCATE, one task: submit to the board, vote, check the money and take it
AllocateTask ==
  /\ phase = "allocate"
  /\ \E i \in DOMAIN tasks :
       /\ tasks[i].status = "organized"
       /\ \A j \in 1..(i - 1) : tasks[j].status # "organized"
       /\ LET k == tasks[i].kind
              status == IF Decision(k) \notin {"approved", "override"} THEN "board_denied"
                        ELSE IF CanAfford(k.cost) THEN "allocated" ELSE "budget_denied"
          IN  /\ tasks' = [tasks EXCEPT ![i].status = status]
              /\ spent' = IF status = "allocated" THEN Request(k.cost) ELSE spent
  /\ UNCHANGED <<phase, outcome, scores, staff>>

\* What each task of the cycle is estimated to cost
Costs == [i \in DOMAIN tasks |-> tasks[i].kind.cost]
\* ROITracker.record of each task that was executed
Record(done) ==
  LET by(e) == {i \in done : tasks[i].who = e}
      roi == [i \in DOMAIN tasks |-> tasks[i].kind.value \div tasks[i].kind.cost]
  IN  /\ outcome' = [n |-> outcome.n + Cardinality(done),
                     cost |-> outcome.cost + SumFunctionOnSet(Costs, done)]
      /\ scores' = [e \in Employees |-> [n |-> scores[e].n + Cardinality(by(e)),
                                         roi |-> scores[e].roi + SumFunctionOnSet(roi, by(e))]]

\* EXECUTE and VERIFY: only the approved tasks go on
ExecuteTasks ==
  /\ phase = "allocate" /\ \A i \in DOMAIN tasks : tasks[i].status # "organized"
  /\ LET approved == {i \in DOMAIN tasks : tasks[i].status = "allocated"}
         done == {i \in approved : tasks[i].kind.risk # "critical"}
     IN  /\ tasks' = [i \in DOMAIN tasks |->
                        [tasks[i] EXCEPT !.status = IF i \in done THEN "executed"
                                                    ELSE IF i \in approved THEN "execution_failed"
                                                    ELSE @]]
         /\ Record(done)
  /\ phase' = "evolve"
  /\ UNCHANGED <<spent, staff>>

\* Three outcomes above 3 on the average promote, three below a half dismiss
PromoteCandidates == {e \in Employees : scores[e].n >= 3 /\ scores[e].roi > 3 * scores[e].n}
FireCandidates == {e \in Employees : scores[e].n >= 3 /\ 2 * scores[e].roi < scores[e].n}

Restructure(e) ==
  [tier |-> IF e \in PromoteCandidates /\ staff[e].tier < Len(Tiers)
            THEN staff[e].tier + 1 ELSE staff[e].tier,
   offline |-> staff[e].offline \/ e \in FireCandidates]

Evolve ==
  /\ phase = "evolve"
  /\ staff' = [e \in Employees |-> Restructure(e)]
  /\ phase' = "intake" /\ tasks' = <<>>
  /\ UNCHANGED <<spent, outcome, scores>>

CorpNext == Intake \/ AllocateTask \/ ExecuteTasks \/ Evolve
CorpSpec == CorpInit /\ [][CorpNext]_cvars

-----------------------------------------------------------------------------
CostOf(status) ==
  SumFunctionOnSet(Costs, {i \in DOMAIN tasks : tasks[i].status = status})

\* The category is never overspent, although request() would take any amount while it
\* is not (corp_budget_controller.py, lines 52-56): allocate_budget asks can_afford first.
NeverOverspent == spent <= Limit

\* What was spent is what the executed tasks cost and what the allocated ones will: no
\* task is paid for and then not executed, none is executed unpaid.
PaidIsExecuted == spent = outcome.cost + CostOf("allocated")

\* What the board did not approve is not executed.
BoardObeyed ==
  \A i \in DOMAIN tasks :
    tasks[i].status \in {"allocated", "executed"} => Decision(tasks[i].kind) = "approved"

\* The money of the corporation follows the votes of its board.
MoneyFollowsBoard == NeverOverspent /\ PaidIsExecuted /\ BoardObeyed

=============================================================================
