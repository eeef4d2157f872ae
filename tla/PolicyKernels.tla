--------------------------- MODULE PolicyKernels ---------------------------
(***************************************************************************)
(* The four policy kernels (policy_kernel.py, _v2, _v3, _v4) with the      *)
(* semantic firewall, the capability table and the sandbox that v3 uses.   *)
(* A kernel is asked again and again; what it keeps are its counters, its  *)
(* log and, in v1, the rules.  The regular expressions of a kernel are one *)
(* question, answered by a flag of the request.                            *)
(***************************************************************************)
EXTENDS Integers, Sequences, FiniteSets, FiniteSetsExt

CONSTANTS Plans,          \* v1: an action plan merged with the system state
          Actions,        \* v2, v3, v4: an action, its context and its intent
          Retired,        \* the rules of v1 that a client may deactivate
          MaxEvaluations  \* bound: evaluations of each kernel

VARIABLES k1, k2, k3, k4
kvars == <<k1, k2, k3, k4>>

(***************************************************************************)
(* v1: ten rules, every active one is evaluated, the strictest decides.    *)
(***************************************************************************)
DefaultRules ==
  [gpu_overheat |-> "veto", memory_oom |-> "veto", secret_exposure |-> "veto",
   external_network |-> "veto", gpu_exhaustion |-> "block", ram_limit |-> "block",
   compute_budget |-> "block", audit_trail |-> "escalate", rate_limit |-> "block",
   filesystem |-> "veto"]
RuleIds == DOMAIN DefaultRules

\* _check_condition; hundredths for the ratios.  A flag counts only when it is
\* the literal True (or False), and an unknown condition is never met.
ConditionMet(rule, p) ==
  \/ rule = "gpu_overheat" /\ p.gpu > 98
  \/ rule = "memory_oom" /\ p.ram > 97
  \/ rule = "gpu_exhaustion" /\ 10 * p.wantedGpu > 11 * p.freeGpu
  \/ rule = "ram_limit" /\ 100 * p.wantedRam > 95 * p.freeRam
  \/ rule = "compute_budget" /\ p.cost > 100
  \/ rule = "rate_limit" /\ p.rate > 100
  \/ rule \in p.flags

\* _evaluate_rule: ALLOW, or the verdict of the rule that is broken.
EvaluateRule(rule, p) ==
  [rule |-> rule, verdict |-> IF ConditionMet(rule, p) THEN DefaultRules[rule] ELSE "allow"]

\* Mutant of FinalVerdict: a missing audit trail is looked at before the vetoes.
EscalateFirst(verdicts) ==
  IF "escalate" \in verdicts THEN "escalate"
  ELSE IF "veto" \in verdicts THEN "veto"
  ELSE IF "block" \in verdicts THEN "block" ELSE "allow"

FinalVerdict(verdicts) ==
  IF "veto" \in verdicts THEN "veto"
  ELSE IF "escalate" \in verdicts THEN "escalate"
  ELSE IF "block" \in verdicts THEN "block" ELSE "allow"

\* The log keeps every single evaluation, a rule counts its violations.
EvaluateV1 ==
  /\ k1.total < MaxEvaluations
  /\ \E p \in Plans :
       LET evals == {EvaluateRule(r, p) : r \in k1.active}
           final == FinalVerdict({e.verdict : e \in evals})
       IN k1' = [k1 EXCEPT
            !.total = @ + 1,
            !.violations = [r \in RuleIds |->
               @[r] + IF \E e \in evals : e.rule = r /\ e.verdict # "allow" THEN 1 ELSE 0],
            !.log = Append(@, [plan |-> p, evals |-> evals, final |-> final])]
  /\ UNCHANGED <<k2, k3, k4>>

DeactivateRule ==
  /\ k1.total < MaxEvaluations
  /\ \E r \in Retired \cap k1.active : k1' = [k1 EXCEPT !.active = @ \ {r}]
  /\ UNCHANGED <<k2, k3, k4>>

(***************************************************************************)
(* v2: three laws, the first that is broken decides.                       *)
(***************************************************************************)
Authorized == {"felix", "Felix", "root", "admin"}
Law1(a) == ~a.affects /\ ~a.forbidden
Law2(a) == a.user \in Authorized /\ a.intent \notin {"empty", "unsafe"}
Law3(a) == /\ a.critical /\ a.type = "shutdown" => a.intent = "confirmed"
           /\ ~a.self_destruct

\* _allow and _deny both leave a record.
Tallied(k, status, a) == [k EXCEPT !.evaluated = @ + 1,
                                    !.audit = Append(@, [status |-> status, action |-> a])]

EvaluateV2 ==
  /\ k2.evaluated < MaxEvaluations
  /\ \E a \in Actions :
       k2' = IF ~Law1(a) THEN [Tallied(k2, "VETO", a) EXCEPT !.vetoed = @ + 1]
             ELSE IF ~Law2(a) THEN [Tallied(k2, "BLOCK", a) EXCEPT !.blocked = @ + 1]
             ELSE IF ~Law3(a) THEN [Tallied(k2, "BLOCK", a) EXCEPT !.blocked = @ + 1]
             ELSE [Tallied(k2, "ALLOW", a) EXCEPT !.allowed = @ + 1]
  /\ UNCHANGED <<k1, k3, k4>>

(***************************************************************************)
(* v3: trust, Felix safety, capability, intent, sandbox.                   *)
(***************************************************************************)
RequiredCapability(type) ==
  CASE type = "shell" -> "exec_shell" [] type = "write_file" -> "write"
    [] type = "delete_file" -> "delete" [] OTHER -> "read"
RoleCapabilities(role) ==
  CASE role = "human_admin" -> {"read", "write", "delete", "exec_file", "exec_shell"}
    [] role = "copilot" -> {"read", "write"}
    [] OTHER -> {"read"}

ValidateTrust(a) == a.signed /\ ~a.expired
HasCapability(a) == RequiredCapability(a.type) \in RoleCapabilities(a.role)
\* No intent at all is safe for the firewall.
SemanticCheck(a) == a.intent # "unsafe"

\* The more a role may do, the tighter its sandbox.
SandboxMode(role) ==
  LET caps == RoleCapabilities(role)
  IN IF {"delete", "exec_file"} \cap caps # {} THEN "contained"
     ELSE IF "write" \in caps THEN "limited"
     ELSE IF "exec_shell" \in caps THEN "operational" ELSE "contained"

PrepareSandbox(boxes, role) ==
  Append(boxes, [mode |-> SandboxMode(role), read_only |-> SandboxMode(role) = "contained"])

\* The firewall counts a check and, when it refuses, a block of its own.
Denied(k, counter) == [k EXCEPT !.evals = @ + 1, ![counter] = @ + 1]
EvaluateV3 ==
  /\ k3.evals < MaxEvaluations
  /\ \E a \in Actions :
       k3' = IF ~ValidateTrust(a) \/ a.forbidden THEN Denied(k3, "vetoes")
             ELSE IF ~HasCapability(a) THEN Denied(k3, "blocks")
             ELSE IF ~SemanticCheck(a)
                  THEN [Denied(k3, "blocks") EXCEPT !.checks = @ + 1, !.semantic = @ + 1]
             ELSE [Denied(k3, "allows") EXCEPT !.checks = @ + 1,
                     !.boxes = PrepareSandbox(@, a.role), !.let_through = @ \cup {a}]
  /\ UNCHANGED <<k1, k2, k4>>

(***************************************************************************)
(* v4: a trace of the stages; the verdict is the last stage that answered. *)
(***************************************************************************)
Stages == <<"TRUST_CHECK", "CAPABILITY_CHECK", "SEMANTIC_CHECK", "SANDBOX_BIND", "EXECUTE",
            "AUDIT_FINALIZE">>
\* v4 has a table of its own and reads the capabilities of the caller from the
\* context; "filesystem_rw" stands for every one of them.
RequiredV4(type) ==
  CASE type = "shell" -> "filesystem_rw" [] type = "git" -> "git"
    [] type \in {"write_file", "delete_file"} -> "filesystem_write"
    [] OTHER -> "filesystem_read"
CapabilitiesV4 == {"filesystem_rw", "filesystem_read", "filesystem_write", "git"}
HasCapabilityV4(a, caps) == {RequiredV4(a.type), "filesystem_rw"} \cap caps # {}

Traced(n, verdict, a) ==
  k4' = [evals |-> k4.evals + 1, steps |-> SubSeq(Stages, 1, n), verdict |-> verdict, of |-> {a}]

EvaluateV4 ==
  /\ k4.evals < MaxEvaluations
  /\ \E a \in Actions, caps \in SUBSET CapabilitiesV4 :
       \/ ~a.signed /\ Traced(1, "veto", a)
       \/ a.signed /\ ~HasCapabilityV4(a, caps) /\ Traced(2, "block", a)
       \/ a.signed /\ HasCapabilityV4(a, caps) /\ a.forbidden /\ Traced(2, "veto", a)
       \/ a.signed /\ HasCapabilityV4(a, caps) /\ ~a.forbidden /\ ~SemanticCheck(a)
            /\ Traced(3, "block", a)
       \/ a.signed /\ HasCapabilityV4(a, caps) /\ ~a.forbidden /\ SemanticCheck(a)
            /\ Traced(6, "allow", a)
  /\ UNCHANGED <<k1, k2, k3>>

KernelsInit ==
  /\ k1 = [active |-> RuleIds, violations |-> [r \in RuleIds |-> 0], log |-> <<>>, total |-> 0]
  /\ k2 = [evaluated |-> 0, vetoed |-> 0, blocked |-> 0, allowed |-> 0, audit |-> <<>>]
  /\ k3 = [evals |-> 0, vetoes |-> 0, blocks |-> 0, allows |-> 0, checks |-> 0,
           semantic |-> 0, boxes |-> <<>>, let_through |-> {}]
  /\ k4 = [evals |-> 0, steps |-> <<>>, verdict |-> "none", of |-> {}]

KernelsNext == EvaluateV1 \/ DeactivateRule \/ EvaluateV2 \/ EvaluateV3 \/ EvaluateV4
KernelsSpec == KernelsInit /\ [][KernelsNext]_kvars

(***************************************************************************)
(* Properties.                                                             *)
(***************************************************************************)
CountOf(s, status) == Cardinality({i \in DOMAIN s : s[i].status = status})

\* The counters of a kernel tell what its log tells: every evaluation ends in
\* one verdict, and the violations of the rules add up to the failed entries.
KernelBooks ==
  /\ k1.total = Len(k1.log)
  /\ \A r \in RuleIds : k1.violations[r] =
       Cardinality({i \in DOMAIN k1.log : \E e \in k1.log[i].evals : e.rule = r /\ e.verdict # "allow"})
  /\ k2.evaluated = k2.vetoed + k2.blocked + k2.allowed
  /\ k2.vetoed = CountOf(k2.audit, "VETO") /\ k2.blocked = CountOf(k2.audit, "BLOCK")
  /\ k3.evals = k3.vetoes + k3.blocks + k3.allows
  /\ k3.checks = k3.semantic + k3.allows /\ Len(k3.boxes) = k3.allows

\* A broken rule that forbids for good is never outvoted by a milder one, in no
\* plan and whatever rules were switched off before (policy_kernel.py:231).
VetoWins == \A i \in DOMAIN k1.log :
  (k1.log[i].final = "veto") <=> (\E e \in k1.log[i].evals : e.verdict = "veto")

\* What a later kernel lets through has passed every one of its stages: v2 allows
\* nothing forbidden, v3 and v4 nothing untrusted, forbidden or of unsafe intent,
\* and only a complete trace carries an "allow".
AllowedPassedAll ==
  /\ \A i \in DOMAIN k2.audit : k2.audit[i].status = "ALLOW" =>
       ~k2.audit[i].action.forbidden /\ k2.audit[i].action.intent # "unsafe"
  /\ \A a \in k3.let_through : a.signed /\ ~a.forbidden /\ a.intent # "unsafe"
  /\ (k4.verdict = "allow") <=> (k4.steps = Stages)
  /\ k4.verdict = "allow" => \A a \in k4.of : a.signed /\ ~a.forbidden /\ a.intent # "unsafe"

\* KernelBooks, VetoWins and AllowedPassedAll.
VerdictsHold == KernelBooks /\ VetoWins /\ AllowedPassedAll
=============================================================================
