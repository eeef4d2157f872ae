----------------------------- MODULE ProofLayer -----------------------------
(***************************************************************************)
(* The layers over the policy kernel v1: the execution proof engine, whose *)
(* steps its callers take in any order; the Policy Execution Layer of      *)
(* TAAR v10.1, which takes them for each action; the APEX kernel of v11;   *)
(* and the audit graph both write to.  The hash of a node is its sequence  *)
(* number: hashes do not collide.                                          *)
(***************************************************************************)
EXTENDS PolicyKernels

CONSTANTS Requests,     \* PEL: records [plan, category, removes]
          Categories,   \* categories a client of the engine submits
          Tasks,        \* APEX: records [mode, plan]
          MaxProofs,    \* bound: proofs of a session
          MaxAnswers    \* bound: approve calls of a session

VARIABLES engine,       \* an ExecutionProofEngine of its own
          pel,          \* PolicyExecutionLayer: its proofs, audit graph, counters
          apex          \* APEXExecutionKernel: its results and audit graph
plvars == <<engine, pel, apex>>

Verdict(p) == FinalVerdict({EvaluateRule(r, p).verdict : r \in RuleIds})

(***************************************************************************)
(* The audit graph.                                                        *)
(***************************************************************************)
GENESIS == 0
AddNode(g, action, type) ==
  Append(g, [action |-> action, type |-> type, hash |-> Len(g) + 1,
             prev |-> IF g = <<>> THEN GENESIS ELSE g[Len(g)].hash])
VerifyChain(g) == \A n \in DOMAIN g : g[n].prev = IF n = 1 THEN GENESIS ELSE g[n - 1].hash

(***************************************************************************)
(* The proof engine.  A proof knows how often it was approved and executed *)
(* (history of the model); risk is in hundredths.                          *)
(***************************************************************************)
NewProof(category) == [category |-> category, status |-> "pending", risk |-> 0, approved |-> 0,
                       executed |-> 0, simulations |-> 0]
SubmitPlan(e, category) == [e EXCEPT !.proofs = Append(@, NewProof(category))]

\* _risk_score: the category, and 0.3 more when a changed value speaks of a deletion.
RiskScore(category, removes) ==
  LET base == CASE category = "read" -> 0 [] category = "write" -> 20 [] category = "deploy" -> 50
                [] category = "external" -> 80 [] OTHER -> 100
  IN IF removes THEN Min({100, base + 30}) ELSE base

\* simulate looks at no status: a proof that was rejected or executed is simulated
\* again and starts over.
Simulate(proof, removes) ==
  [proof EXCEPT !.status = "simulated", !.risk = RiskScore(proof.category, removes),
                !.simulations = @ + 1]

\* Mutant of Approve: the status is not looked at.
ApproveUnsimulated(proof) ==
  IF proof.risk < 85 THEN [proof EXCEPT !.status = "approved", !.approved = @ + 1]
  ELSE [proof EXCEPT !.status = "rejected"]

Approve(proof) ==
  IF proof.status # "simulated" THEN proof
  ELSE IF proof.risk < 85 THEN [proof EXCEPT !.status = "approved", !.approved = @ + 1]
  ELSE [proof EXCEPT !.status = "rejected"]

Execute(proof) ==
  IF proof.status = "approved" THEN [proof EXCEPT !.status = "executed", !.executed = @ + 1] ELSE proof

\* verify compares the state it is given with the simulated one.
Verify(proof, matches) ==
  IF proof.status = "executed" /\ matches THEN [proof EXCEPT !.status = "verified"] ELSE proof

\* A client takes a step with one of its proofs.
EngineSubmits ==
  /\ Len(engine.proofs) < MaxProofs
  /\ \E c \in Categories : engine' = SubmitPlan(engine, c)
EngineSteps ==
  /\ engine.answers < MaxAnswers
  /\ \E n \in DOMAIN engine.proofs, flag \in BOOLEAN :
       \E next \in {Simulate(engine.proofs[n], flag), Approve(engine.proofs[n]),
                    Execute(engine.proofs[n]), Verify(engine.proofs[n], flag)} :
         engine' = [engine EXCEPT !.proofs[n] = next, !.answers = @ + 1]
EngineClient == (EngineSubmits \/ EngineSteps) /\ UNCHANGED <<pel, apex>>

(***************************************************************************)
(* process_action of the Policy Execution Layer.                           *)
(***************************************************************************)
HighRisk(category) == category \in {"deploy", "destroy", "external"}

\* The proof behind the policy verdict: simulated if the category asks for it; a
\* VETO or BLOCK rejects it; approve is called only for what was not simulated,
\* and refuses just that.  An ESCALATE takes the way of an ALLOW.
PelProof(r, verdict) ==
  LET proof == IF HighRisk(r.category) THEN Simulate(NewProof(r.category), r.removes)
               ELSE NewProof(r.category)
  IN IF verdict \in {"veto", "block"} THEN [proof EXCEPT !.status = "rejected"]
     ELSE IF proof.status # "simulated" THEN Approve(proof) ELSE proof

ProcessAction ==
  /\ Len(pel.verdicts) < MaxProofs
  /\ \E r \in Requests, matches \in BOOLEAN :
       LET verdict == Verdict(r.plan)
           proof == PelProof(r, verdict)
           ran == proof.status = "approved"
           id == Len(pel.proofs) + 1
           blocked == verdict \in {"veto", "block"}
           judged == AddNode(pel.graph, id, "policy_verdict")
           acted == IF blocked THEN AddNode(judged, id, "action_blocked")
                    ELSE IF ran THEN AddNode(judged, id, "action_executed") ELSE judged
       IN pel' = [proofs |-> Append(pel.proofs, IF ran THEN Verify(Execute(proof), matches) ELSE proof),
                  graph |-> AddNode(acted, id, "audit_record"),
                  blocked |-> pel.blocked + IF blocked THEN 1 ELSE 0,
                  executed |-> pel.executed + IF ran THEN 1 ELSE 0,
                  verdicts |-> Append(pel.verdicts, verdict)]
  /\ UNCHANGED <<engine, apex>>

(***************************************************************************)
(* execute of the APEX kernel.                                             *)
(***************************************************************************)
Analyze(task) == CASE task.mode \in {"ci", "devops"} -> "DEVOPS" [] task.mode = "swarm" -> "SWARM"
                   [] task.mode = "infra" -> "INFRA" [] OTHER -> "SINGLE"
Plan(mode) == IF mode = "DEVOPS" THEN 8 ELSE 5    \* steps

\* _prove: with real execution the engine is asked, but "apex_plan" is no category
\* and the exception is dropped: a proof is valid as it is built.
Prove(steps) == [steps |-> steps, validation |-> "valid"]

\* The verdict is compared with "BLOCK" and "VETO", the values are lower case.
IsVetoed(verdict) == verdict \in {"BLOCK", "VETO"}

ExecutePlan(steps) == [k \in 1 .. steps |-> "executed"]

ApexExecute ==
  /\ Len(apex.results) < MaxProofs
  /\ \E task \in Tasks :
       LET verdict == Verdict(task.plan)
           steps == Plan(Analyze(task))
           vetoed == IsVetoed(verdict)
       IN apex' = [results |-> Append(apex.results,
                     [verdict |-> verdict, proof |-> Prove(steps),
                      outcome |-> IF vetoed THEN "vetoed" ELSE "success",
                      calls |-> IF vetoed THEN <<>> ELSE ExecutePlan(steps)]),
                   graph |-> AddNode(apex.graph, Len(apex.results) + 1, "execution")]
  /\ UNCHANGED <<engine, pel>>

ProofInit ==
  /\ engine = [proofs |-> <<>>, answers |-> 0]
  /\ pel = [proofs |-> <<>>, graph |-> <<>>, blocked |-> 0, executed |-> 0, verdicts |-> <<>>]
  /\ apex = [results |-> <<>>, graph |-> <<>>]
ProofNext == EngineClient \/ ProcessAction \/ ApexExecute
ProofSpec == ProofInit /\ [][ProofNext]_plvars

(***************************************************************************)
(* Properties.                                                             *)
(***************************************************************************)
\* In whatever order its steps are called, a proof is not executed more often than
\* it was approved, nor approved more often than simulated, and nothing at the
\* hard limit of 0.85 runs (execution_proof_engine.py:193).
RunsAreEarned == \A n \in DOMAIN engine.proofs :
  LET p == engine.proofs[n]
  IN /\ p.executed <= p.approved /\ p.approved <= p.simulations
     /\ p.category = "destroy" => p.executed = 0
     /\ p.status \in {"executed", "verified"} => p.executed > 0 /\ p.risk < 85

Trail(g, id) == {n \in DOMAIN g : g[n].action = id}
Types(g, id) == {g[n].type : n \in Trail(g, id)}

\* The chain of the layer's audit graph is intact and tells what the layer did: a
\* verdict, then what came of it, then a record, for one action after the other;
\* exactly the blocked ones are marked as such and none of them was executed.
AuditTellsAll ==
  LET ids == DOMAIN pel.verdicts  about(id) == Types(pel.graph, id)
  IN /\ VerifyChain(pel.graph)
     /\ \A id \in ids :
          /\ {"policy_verdict", "audit_record"} \subseteq about(id)
          /\ ("action_blocked" \in about(id)) = (pel.verdicts[id] \in {"veto", "block"})
          /\ ("action_executed" \in about(id)) = (pel.proofs[id].status \in {"executed", "verified"})
          /\ "action_blocked" \in about(id) => pel.proofs[id].status = "rejected"
          /\ \A n \in Trail(pel.graph, id), m \in DOMAIN pel.graph :
               m < n => pel.graph[m].action <= id
     /\ pel.blocked = Cardinality({id \in ids : "action_blocked" \in about(id)})
     /\ pel.executed = Cardinality({id \in ids : "action_executed" \in about(id)})

\* Every APEX run is in its audit graph and has a proof of all of its plan.
ApexIsAudited ==
  /\ VerifyChain(apex.graph) /\ Len(apex.graph) = Len(apex.results)
  /\ \A n \in DOMAIN apex.results : Len(apex.results[n].calls) \in {0, apex.results[n].proof.steps}

\* RunsAreEarned, AuditTellsAll and ApexIsAudited.
ProofsHold == RunsAreEarned /\ AuditTellsAll /\ ApexIsAudited

\* A verdict of VETO means "never allow this class of action"
\* (policy_kernel.py:22): such a task is not carried out.
VetoedIsNotExecuted ==
  \A n \in DOMAIN apex.results : apex.results[n].verdict = "veto" => apex.results[n].calls = <<>>
=============================================================================
