---------------------------- MODULE ExecutionLoop ----------------------------
(***************************************************************************)
(* ExecutionLoop (core/execution_loop.py): how an intent becomes a plan.   *)
(*                                                                         *)
(* Of an intent the keywords matter: the kinds of step they ask for and    *)
(* the worst threat they spell.  Risks are in thousandths.  The verdicts   *)
(* of the policy kernel come from outside: the kinds of step it vetoes.    *)
(***************************************************************************)
EXTENDS Integers, Sequences, SequencesExt

\* type_map, in the order in which the kinds are looked for.
KindsInOrder == <<"devops_analyze", "file_write", "file_modify", "file_delete">>

Kinds == ToSet(KindsInOrder) \cup {"generic"}

Threats == {"none", "DESTRUCTION", "SYSTEM_ESCALATION", "NETWORK_EXFILTRATION",
            "CONTAINER_ESCAPE"}

IntentRecords == [kinds : SUBSET ToSet(KindsInOrder), threat : Threats]

PlanRecords == [steps : Seq(Kinds), risk : Nat, blocked_at : Kinds \cup {"none"}]

\* The kind at a place of type_map, if the intent asks for it.
Detected(intent, i) ==
    IF KindsInOrder[i] \in intent.kinds THEN <<KindsInOrder[i]>> ELSE <<>>

ParseIntent(intent) ==
    LET detected == Detected(intent, 1) \o Detected(intent, 2) \o Detected(intent, 3)
                        \o Detected(intent, 4) IN
    IF detected = <<>> THEN <<"generic">> ELSE detected

\* Score of the simulated step: impact, reversibility and blast radius of its kind.
BaseRisk ==
    [devops_analyze |-> 55, file_write |-> 150, file_modify |-> 150,
     file_delete |-> 310, generic |-> 55]

\* What the words of the intent raise every step to.
ThreatRisk ==
    [none |-> 0, DESTRUCTION |-> 850, SYSTEM_ESCALATION |-> 700,
     NETWORK_EXFILTRATION |-> 500, CONTAINER_ESCAPE |-> 750]

ComputeRisk(kind, threat) ==
    IF BaseRisk[kind] > ThreatRisk[threat] THEN BaseRisk[kind] ELSE ThreatRisk[threat]

\* _verify_safety: no kind has a blast radius or an irreversibility beyond its
\* limits, and earlier steps could proceed; what remains is the sum.
VerifySafety(total, risk) == total + risk <= 2500

CanProceed(plan, kind, intent, vetoed) ==
    LET risk == ComputeRisk(kind, intent.threat) IN
    risk < 700 /\ VerifySafety(plan.risk, risk) /\ kind \notin vetoed

\* Mutant of Planned: a step that may not proceed is left out and the rest goes on.
PlannedSkips(plan, kind, intent, vetoed) ==
    IF CanProceed(plan, kind, intent, vetoed)
    THEN [plan EXCEPT !.steps = Append(@, kind),
                      !.risk = @ + ComputeRisk(kind, intent.threat)]
    ELSE [plan EXCEPT !.blocked_at = kind]

\* One round of the loop in execute: the first step that may not proceed
\* blocks the plan and ends the loop.
Planned(plan, kind, intent, vetoed) ==
    IF plan.blocked_at # "none" THEN plan
    ELSE IF CanProceed(plan, kind, intent, vetoed)
         THEN [plan EXCEPT !.steps = Append(@, kind),
                           !.risk = @ + ComputeRisk(kind, intent.threat)]
         ELSE [plan EXCEPT !.blocked_at = kind]

EmptyPlan == [steps |-> <<>>, risk |-> 0, blocked_at |-> "none"]

\* The plan behind each round of the loop, and behind the last one.
Execute(intent, vetoed) ==
    LET wanted == ParseIntent(intent)
        after[n \in 0 .. Len(wanted)] ==
            IF n = 0 THEN EmptyPlan ELSE Planned(after[n - 1], wanted[n], intent, vetoed)
    IN after[Len(wanted)]

IsSafe(plan) == plan.blocked_at = "none" /\ plan.risk < 2500

\* execute_plan: a blocked plan is reported, none of its steps is executed.
ExecutePlan(plan) == IF plan.blocked_at # "none" THEN <<>> ELSE plan.steps
=============================================================================
