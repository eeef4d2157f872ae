-------------------------------- MODULE Meta --------------------------------
(***************************************************************************)
(* The meta-orchestration of TAAR v14.  taar_v14.py handles a task in one  *)
(* call: the mapper finds its layers, the decision engine its topology,    *)
(* the policy kernel passes ten hard rules over it, and a lower layer is   *)
(* called.  The control loop (meta_control_loop.py) and the closing of     *)
(* proofs (meta_proof_engine.py) are not called by it and are modelled by  *)
(* themselves.  A task is known by the layers whose keywords it holds, the *)
(* risk levels whose patterns it holds, and two kinds of words that the    *)
(* decision engine looks for again: "market" and, as "spread", those of L3 *)
(* but "concurrent".  A behaviour is about one of the three: tasks, a      *)
(* client of the proof engine, or a loop.                                  *)
(***************************************************************************)
EXTENDS Integers, Sequences, FiniteSets

CONSTANTS MetaTasks,    \* records [hits, levels, words]
          MaxMetaTasks,     \* bound: tasks of a kernel
          MaxRules,     \* bound: rules the governance adds
          MaxMetaProofs \* bound: proofs of a client of the engine

VARIABLES meta,         \* the kernel: counters, log, what it could import
          policy,       \* MetaPolicyState and the number of added rules
          mapped,        \* SystemMapper.usage_stats
          evidence,     \* MetaProofEngine: pending_proofs, proofs
          loop          \* a LoopState
mvars == <<meta, policy, mapped, evidence, loop>>

Layers == 0 .. 6        \* L0 .. L6
NoCounts == [l \in Layers |-> 0]
Counted(counts, layers) == [l \in Layers |-> counts[l] + IF l \in layers THEN 1 ELSE 0]

(***************************************************************************)
(* map: the layers of the keywords, cognitive if there are none.  The      *)
(* levels are looked at from critical to low and the last one counts: a    *)
(* word of a lower level takes the place of a higher one.                  *)
(***************************************************************************)
RequiredLayers(task) == IF task.hits = {} THEN {6} ELSE task.hits
RiskLevel(task) ==
  IF task.levels = {} \/ "low" \in task.levels THEN "low"
  ELSE IF "medium" \in task.levels THEN "medium"
  ELSE IF "high" \in task.levels THEN "high" ELSE "critical"
Primary(layers) == CHOOSE l \in layers : \A k \in layers : l <= k

\* _select_mode of the decision engine; 0.5 GB for each of the seven layers never
\* comes to more than 6.
SelectMode(risk) == CASE risk = "critical" -> "MODE_D" [] risk = "high" -> "MODE_B" [] OTHER -> "MODE_A"

\* decide: the topology that follows from the words, layers and risk of a task.
Decide(task) ==
  LET layers == RequiredLayers(task)
      risk == RiskLevel(task)
  IN [primary |-> Primary(layers), supporting |-> layers \ {Primary(layers)},
      reality |-> 0 \in layers, civilization |-> 1 \in layers \/ "market" \in task.words,
      split |-> "spread" \in task.words /\ risk \in {"high", "critical"}, mode |-> SelectMode(risk)]

\* Mutant of HasSimulation: a critical task is simulated like any other.
HasSimulationAnyway(risk) == TRUE

\* _simulate: there is a simulation id, but for critical risk.
HasSimulation(risk) == risk # "critical"

\* _build_plan_graph: a node for each layer, in a row.
PlanGraph(layers) == [nodes |-> layers, edges |-> Cardinality(layers) - 1]

(***************************************************************************)
(* check of the policy kernel: the P0 rules that can fail; a rule the      *)
(* governance adds may say DENY, which the verdict does not listen to.     *)
(***************************************************************************)
P0RuleCount == 10
P0Blocks(layers, proved, simulated, approved) ==
  \/ ~proved
  \/ Cardinality(layers) > 1 /\ ~simulated
  \/ 0 \in layers /\ ~approved

UpdateStats(p, blocked) ==
  [p EXCEPT !.checks = @ + 1, !.blocks = @ + IF blocked THEN 1 ELSE 0,
            !.allows = @ + IF blocked THEN 0 ELSE 1,
            !.bypasses = @ + IF p.rules > 0 THEN 1 ELSE 0]

\* generate_proof and finalize_proof; a proof is its number, and whether the
\* checks it was built from had passed the P0 rules.  Nothing depends on the order
\* of the pending ones.
GenerateProof(e, passed) ==
  [e EXCEPT !.pending = @ \cup {[id |-> e.made + 1, passed |-> passed]}, !.made = @ + 1]
FinalizeProof(e, id) ==
  LET here == {p \in e.pending : p.id = id}
  IN IF here = {} THEN e
     ELSE [e EXCEPT !.proofs = Append(@, CHOOSE p \in here : TRUE), !.pending = @ \ here]
VerifyProof(e, id) == \E n \in DOMAIN e.proofs : e.proofs[n].id = id /\ e.proofs[n].passed

\* _execute: the executor of the primary layer that could be imported; the classes
\* it looks for in taar_v9 and taar_v10 do not exist.  The DevOps agent may raise.
Outcomes(primary) ==
  CASE primary = 3 /\ "corporate" \in meta.lower -> {"corporate"}
    [] primary \in {4, 5} /\ "devops" \in meta.lower -> {"devops", "error"}
    [] OTHER -> {"cognitive"}

(***************************************************************************)
(* process: the proof comes before the checks, from no checks at all, and  *)
(* what touches reality is approved by the caller itself.                  *)
(***************************************************************************)
Process ==
  /\ meta.tasks < MaxMetaTasks /\ evidence.made = meta.tasks /\ loop.at = 0
  /\ \E task \in MetaTasks :
       LET layers == RequiredLayers(task)
           risk == RiskLevel(task)
           blocked == P0Blocks(layers, TRUE, HasSimulation(risk), 0 \in layers)
       IN /\ mapped' = Counted(Counted(mapped, layers), layers)   \* process and decide both map
          /\ evidence' = GenerateProof(evidence, TRUE)
          /\ policy' = UpdateStats(policy, blocked)
          /\ \E outcome \in IF blocked THEN {"blocked"} ELSE Outcomes(Primary(layers)) :
               meta' = [meta EXCEPT
                 !.tasks = @ + 1, !.activated = Counted(@, layers),
                 !.blocked = @ + IF blocked THEN 1 ELSE 0,
                 !.approved = @ + IF blocked THEN 0 ELSE 1,
                 !.log = Append(@, [layers |-> layers, risk |-> risk, graph |-> PlanGraph(layers),
                   topology |-> Decide(task), outcome |-> outcome,
                   checks |-> P0RuleCount + policy.rules,
                   proof |-> IF blocked THEN 0 ELSE evidence.made + 1])]
  /\ UNCHANGED loop

\* add_p1_rule, add_p2_rule.
AddRule ==
  /\ policy.rules < MaxRules /\ meta.tasks > 0
  /\ policy' = [policy EXCEPT !.rules = @ + 1]
  /\ UNCHANGED <<meta, mapped, evidence, loop>>

\* A client of the proof engine alone.
ProofClient ==
  /\ meta.tasks = 0 /\ loop.at = 0
  /\ \/ evidence.made < MaxMetaProofs /\ \E passed \in BOOLEAN : evidence' = GenerateProof(evidence, passed)
     \/ \E id \in 1 .. MaxMetaProofs : evidence' = FinalizeProof(evidence, id)
  /\ UNCHANGED <<meta, policy, mapped, loop>>

(***************************************************************************)
(* run_meta_loop: ten phases in order, the loop is left after the phase    *)
(* that blocks.                                                            *)
(***************************************************************************)
Phases == <<"OBSERVE", "MODEL", "SIMULATE", "DECIDE", "PROVE", "GOVERN", "EXECUTE", "AUDIT",
            "LEARN", "COMPLETE">>
NewLoop == [at |-> 0, state |-> "running", history |-> <<>>, simulation |-> "none",
            verdict |-> "none", executed |-> FALSE, audited |-> FALSE]

\* What the executor may answer: a simulation that is unsafe and does not say
\* "blocked", and rulings by other names than the one the loop knows.
SimAnswers == {"safe", "blocked", "unsafe"}
Rulings == {"APPROVED", "BLOCKED", "DENY", "BLOCK", ""}
Stops(phase, simulated, ruling) ==
  \/ phase = "SIMULATE" /\ simulated = "blocked"
  \/ phase = "GOVERN" /\ ruling = "BLOCKED"

\* run_phase; SIMULATE and GOVERN can block.
RunPhase ==
  /\ loop.state = "running" /\ evidence.made = 0
  /\ \E simulated \in SimAnswers, ruling \in Rulings :
       LET phase == Phases[loop.at + 1]
       IN loop' = [loop EXCEPT
            !.at = @ + 1, !.history = Append(@, phase),
            !.simulation = IF phase = "SIMULATE" THEN simulated ELSE @,
            !.verdict = IF phase = "GOVERN" THEN ruling ELSE @,
            !.executed = @ \/ phase = "EXECUTE", !.audited = @ \/ phase = "AUDIT",
            !.state = IF Stops(phase, simulated, ruling) THEN "BLOCKED"
                      ELSE IF phase = "COMPLETE" THEN "COMPLETE" ELSE @]
  /\ UNCHANGED <<meta, policy, mapped, evidence>>

\* A method of the executor raises: the exception goes through the loop.
PhaseRaises ==
  /\ loop.state = "running" /\ evidence.made = 0 /\ loop.at < 9
  /\ loop' = [loop EXCEPT !.state = "raised", !.history = Append(@, Phases[loop.at + 1])]
  /\ UNCHANGED <<meta, policy, mapped, evidence>>

MetaInit ==
  /\ meta \in {[tasks |-> 0, approved |-> 0, blocked |-> 0, activated |-> NoCounts, log |-> <<>>,
                lower |-> lower] : lower \in SUBSET {"corporate", "devops"}}
  /\ policy = [checks |-> 0, blocks |-> 0, allows |-> 0, bypasses |-> 0, rules |-> 0]
  /\ mapped = NoCounts /\ evidence = [pending |-> {}, proofs |-> <<>>, made |-> 0]
  /\ loop = NewLoop
MetaNext == Process \/ AddRule \/ ProofClient \/ RunPhase \/ PhaseRaises
MetaSpec == MetaInit /\ [][MetaNext]_mvars

(***************************************************************************)
(* Properties.                                                             *)
(***************************************************************************)
\* The four parts of the kernel count the same tasks: the statistics of the
\* kernel, of the policy kernel and of the mapper, which is asked twice for each,
\* follow from the log.
CountersAgree == meta.tasks > 0 =>
  LET of(S) == Cardinality({n \in DOMAIN meta.log : meta.log[n].outcome \in S})
  IN /\ meta.tasks = Len(meta.log) /\ meta.tasks = policy.checks
     /\ meta.blocked = of({"blocked"}) /\ meta.approved = meta.tasks - meta.blocked
     /\ policy.blocks = meta.blocked /\ policy.allows = meta.approved
     /\ \A l \in Layers : /\ meta.activated[l] =
                               Cardinality({n \in DOMAIN meta.log : l \in meta.log[n].layers})
                          /\ mapped[l] = 2 * meta.activated[l]

\* A critical task that spans several layers is never carried out, and what is
\* carried out has a proof of its own that waits to be finalized.
CriticalStaysInside ==
  /\ \A n \in DOMAIN meta.log :
       LET r == meta.log[n] IN
         /\ r.risk = "critical" /\ Cardinality(r.layers) > 1 => r.outcome = "blocked" /\ r.proof = 0
         /\ r.outcome # "blocked" => \E p \in evidence.pending : p.id = r.proof
  /\ \A n, m \in DOMAIN meta.log : meta.log[n].proof = meta.log[m].proof => n = m \/ meta.log[n].proof = 0

\* Every proof is either pending or final, and only a final one whose P0 rules
\* had passed is verified.
ProofsInOnePlace ==
  LET pending == {p.id : p \in evidence.pending}
      final == {evidence.proofs[n].id : n \in DOMAIN evidence.proofs}
  IN /\ pending \cup final = 1 .. evidence.made
     /\ Cardinality(evidence.pending) + Len(evidence.proofs) = evidence.made
     /\ \A id \in pending : ~VerifyProof(evidence, id)

\* The loop executes only what was simulated and ruled upon, neither answer being
\* "blocked" in the words it knows (meta_control_loop.py:67, 82); it audits what it
\* executed, unless a method raises; and it blocks for such a word only, before
\* anything was executed or audited.
LoopIsGoverned ==
  /\ loop.executed => /\ loop.simulation \in SimAnswers \ {"blocked"}
                      /\ loop.verdict \in Rulings \ {"BLOCKED"}
  /\ loop.state = "BLOCKED" => /\ ~loop.executed /\ ~loop.audited
                               /\ loop.simulation = "blocked" \/ loop.verdict = "BLOCKED"
  /\ loop.state = "COMPLETE" => loop.executed /\ loop.audited
  /\ loop.history = SubSeq(Phases, 1, Len(loop.history))

\* "BLOCK = auto()  # Hard stop, no bypass" (agents/meta_policy_kernel.py:24): what
\* the governance answers with the policy kernel's own word is not executed.  The
\* loop compares with "BLOCKED": the code does not keep this (README, section 6),
\* and no run checks it.
BlockStops == loop.executed => loop.verdict # "BLOCK"

\* CountersAgree, CriticalStaysInside, ProofsInOnePlace and LoopIsGoverned.
MetaHolds == CountersAgree /\ CriticalStaysInside /\ ProofsInOnePlace /\ LoopIsGoverned

\* "CRITICAL - should be blocked" (agents/taar_v14.py:341, of "delete all
\* containers"): no critical task is carried out.  The code does not keep
\* this (README, section 6), and no run checks it.
CriticalIsBlocked ==
  \A n \in DOMAIN meta.log : meta.log[n].risk = "critical" => meta.log[n].outcome = "blocked"
=============================================================================
